---------------------------- MODULE Spec2Model ----------------------------
(***************************************************************************)
(* A model of the skillmodels estimation engine:                           *)
(*   - the Kalman recursion and likelihood assembly of                     *)
(*     likelihood_function.py (_log_likelihood_jax, soft_clipping);        *)
(*   - the parameter layout of estimation/skill_model.py (params_slices,   *)
(*     len_params, param_names, bounds_list, expandparams, ...);           *)
(*   - the entry points that take a parameter vector, and the likelihood   *)
(*     evaluations that share the buffers of likelihood_arguments_dict;    *)
(*   - fit and the covariance functions, sigma_weights, and the WA         *)
(*     estimator (_calculate_wa_quantities, the IV permutations, the       *)
(*     transition variances, loadings_from_covs of wa_functions.py).       *)
(* Log-likelihood values are fixed-point numbers in hundredths.            *)
(***************************************************************************)
EXTENDS Integers, Sequences, FiniteSets, TLC

VARIABLES
    \* ---- _log_likelihood_jax ----
    kin,                  \* the static arguments: update_info, labels, options
    kpc,                  \* position in _log_likelihood_jax
    period_t,             \* loop variable t
    meas_j,               \* loop variable _j
    update_k,             \* k
    loglikes,             \* the (n_updates, n_obs) table
    measurements,         \* the rows of measurements read so far, a cell NaN or
                          \* observed
    states,               \* per individual the state means, as the steps that
                          \* produced them
    upper_chols,          \* per individual the Cholesky factors, likewise
    log_mixture_weights,  \* per individual the weights, as the updates that
                          \* produced them
    ktrace,               \* the Kalman steps executed so far, in order
    value,                \* the local variable value
    additional_data,      \* the local variable additional_data
    kret,                 \* what the function returned
    \* ---- SkillModel: the parameter layout ----
    model,                \* the attributes of the SkillModel instance
    param_counter,        \* self.param_counter: None while the attribute is absent
    ps_pc,                \* params_slices: 0 when no call runs, else the index of
                          \* the next quantity
    ps_type,              \* params_slices: params_type
    ps_slices,            \* params_slices: the dict slices
    ps_allocs,            \* the slices _general_params_slice has handed out in
                          \* the running call, in order
    returned,             \* what the last finished params_slices call returned
    call,                 \* the last call of another method and its outcome
    \* ---- SkillModel: estimation and likelihood evaluations ----
    start_params,         \* self.start_params: None while the attribute is absent
    optimize_iteration_counter,  \* None while the attribute is absent
    opt_results,          \* the files opt_results/iteration<k>.json, k |-> content
    args_dicts,           \* the dicts likelihood_arguments_dict has returned
    evals,                \* the likelihood evaluations under way
    save_path,            \* self.save_path and whether its opt_results can be written
    \* ---- functions of the arguments alone ----
    fargs,                \* the arguments of the function under evaluation
    fres,                 \* what it returned or raised, None before it has run
    \* ---- SkillModel: the WA estimator ----
    storage_df,           \* self.storage_df: the cells written so far
    wa_pc,                \* position in _calculate_wa_quantities
    wa_t,                 \* loop variable t
    wa_f,                 \* loop variable f
    wa_trace              \* the steps of _calculate_wa_quantities so far, in order

kvars == <<kin, kpc, period_t, meas_j, update_k, loglikes, measurements, states, upper_chols,
           log_mixture_weights, ktrace, value, additional_data, kret>>

lvars == <<model, param_counter, ps_pc, ps_type, ps_slices, ps_allocs, returned, call>>

evars == <<start_params, optimize_iteration_counter, opt_results, args_dicts, evals,
           save_path>>

fvars == <<fargs, fres>>

wvars == <<storage_df, wa_pc, wa_t, wa_f, wa_trace>>

vars == <<kvars, lvars, evars, fvars, wvars>>

\* the state outside _log_likelihood_jax
NotKalman == <<lvars, evars, fvars, wvars>>

\* the state outside the SkillModel instance
NotLayout == <<kvars, fvars, wvars>>

\* an optional value: None is the empty sequence, a present value x is <<x>>
None == <<>>

Some(x) == <<x>>

Max(a, b) == IF a >= b THEN a ELSE b

Abs(a) == IF a >= 0 THEN a ELSE -a

RECURSIVE SumSeq(_)
SumSeq(s) == IF s = <<>> THEN 0 ELSE Head(s) + SumSeq(Tail(s))

(***************************************************************************)
(* Bounds of the Kalman model.                                             *)
(***************************************************************************)
MaxKPeriods == 2

MaxKMeas == 2

\* the individuals (columns of measurements); n_obs = measurements.shape[1]
Individuals == {1, 2}

n_obs == Cardinality(Individuals)

\* the rows kalman_update can return as loglikes_k (hundredths)
LoglikeRows == {<<0, -700>>, <<300, 100>>}

ClipLowerChoices == {None, Some(-300)}

ClipUpperChoices == {None, Some(200)}

(***************************************************************************)
(* soft_clipping: a soft maximum with lower, then a soft minimum with      *)
(* upper.  logsumexp([a, b]) = max(a, b) + log(1 + exp(-|a - b|)); the     *)
(* second term is tabulated in hundredths at |a - b| = 0, 1, 2, ... and    *)
(* interpolated linearly between the table points.                         *)
(***************************************************************************)
Log1pExpTable == <<69, 31, 13, 5, 2, 1, 0>>

Log1pExpNeg(d) ==
    IF d >= 100 * (Len(Log1pExpTable) - 1) THEN 0
    ELSE LET i == d \div 100
             a == Log1pExpTable[i + 1]
             b == Log1pExpTable[i + 2]
         IN a - ((a - b) * (d % 100)) \div 100

logsumexp(a, b) == Max(a, b) + Log1pExpNeg(Abs(a - b))

\* the soft minimum with upper is left out
soft_clip_elem_lower_only(x, lower, upper, lower_hardness, upper_hardness) ==
    IF lower # None
    THEN logsumexp(lower_hardness * x, lower_hardness * lower[1]) \div lower_hardness
    ELSE x

soft_clip_elem(x, lower, upper, lower_hardness, upper_hardness) ==
    LET flat1 == IF lower # None
                 THEN logsumexp(lower_hardness * x, lower_hardness * lower[1])
                          \div lower_hardness
                 ELSE x
    IN IF upper # None
       THEN -(logsumexp(upper_hardness * (-flat1), upper_hardness * (-upper[1]))
                  \div upper_hardness)
       ELSE flat1

\* arr.shape of a table: a sequence of rows, each a sequence of cells
Shape(arr) == <<Len(arr), IF arr = <<>> THEN 0 ELSE Len(arr[1])>>

\* arr.flatten()
RECURSIVE Flatten(_)
Flatten(arr) == IF arr = <<>> THEN <<>> ELSE Head(arr) \o Flatten(Tail(arr))

\* flat.reshape(shape)
Reshape(flat, shape) ==
    [r \in 1..shape[1] |-> [c \in 1..shape[2] |-> flat[(r - 1) * shape[2] + c]]]

\* lines 253-296
soft_clipping(arr, lower, upper, lower_hardness, upper_hardness) ==
    LET shape == Shape(arr)
        flat == Flatten(arr)
        clipped == [i \in 1..Len(flat) |->
                       soft_clip_elem(flat[i], lower, upper,
                                      lower_hardness, upper_hardness)]
    IN Reshape(clipped, shape)

\* arr.sum()
RECURSIVE TableSum(_)
TableSum(arr) == IF arr = <<>> THEN 0 ELSE SumSeq(Head(arr)) + TableSum(Tail(arr))

\* arr.sum(axis=0)
RECURSIVE ColumnSum(_, _)
ColumnSum(arr, c) == IF arr = <<>> THEN 0 ELSE Head(arr)[c] + ColumnSum(Tail(arr), c)

SumAxis0(arr) == [c \in 1..n_obs |-> ColumnSum(arr, c)]

(***************************************************************************)
(* The static arguments of one evaluation.                                 *)
(*   nmeas[t+1]  = len(update_info.loc[t])                                 *)
(*   anchored    : the last update of every period with more than one      *)
(*                 update has purpose "anchoring", all others are          *)
(*                 "measurement"                                           *)
(***************************************************************************)
KalmanInputs ==
    { [n_periods |-> p, nmeas |-> nm, anchored |-> an,
       clipping_lower_bound |-> lo, clipping_upper_bound |-> up,
       clipping_lower_hardness |-> 1, clipping_upper_hardness |-> 1,
       return_all_contributions |-> ra] :
        p \in 1..MaxKPeriods, nm \in UNION {[1..q -> 1..MaxKMeas] : q \in 1..MaxKPeriods},
        an \in BOOLEAN, lo \in ClipLowerChoices, up \in ClipUpperChoices,
        ra \in BOOLEAN }

\* labels["periods"]
periods(inp) == [i \in 1..inp.n_periods |-> i - 1]

\* len(update_info)
n_updates(inp) == SumSeq(inp.nmeas)

\* update_info.iloc[k]["purpose"], for update _j of period t
purpose(inp, t, jj) ==
    IF inp.anchored /\ inp.nmeas[t + 1] > 1 /\ jj = inp.nmeas[t + 1] - 1
    THEN "anchoring" ELSE "measurement"

\* a predict after every period, the last one included
PredictRuns_always(inp, t) == TRUE

\* line 218: the predict runs unless t is the last period
PredictRuns(inp, t) == t # periods(inp)[Len(periods(inp))]

\* k is not advanced
NextUpdateIndex_stuck(kk) == kk

\* line 216: k += 1
NextUpdateIndex(kk) == kk + 1

\* the table is summed first and the sum is clipped
ClippedValue_clip_after_sum(inp, ll) ==
    soft_clip_elem(TableSum(ll), inp.clipping_lower_bound, inp.clipping_upper_bound,
                   inp.clipping_lower_hardness, inp.clipping_upper_hardness)

\* lines 231-239: value
ClippedValue(inp, ll) ==
    TableSum(soft_clipping(ll, inp.clipping_lower_bound, inp.clipping_upper_bound,
                           inp.clipping_lower_hardness, inp.clipping_upper_hardness))

\* line 245: contributions
ClippedContributions(inp, ll) ==
    SumAxis0(soft_clipping(ll, inp.clipping_lower_bound, inp.clipping_upper_bound,
                           inp.clipping_lower_hardness, inp.clipping_upper_hardness))

\* lines 241-248: additional_data
AdditionalData(inp, ll) ==
    IF inp.return_all_contributions
    THEN [value |-> ClippedValue(inp, ll),
          contributions |-> ClippedContributions(inp, ll),
          all_contributions |-> ll]
    ELSE [value |-> ClippedValue(inp, ll),
          contributions |-> ClippedContributions(inp, ll)]

\* no SkillModel instance exists
NoModel ==
    /\ model = None
    /\ param_counter = None
    /\ ps_pc = 0
    /\ ps_type = None
    /\ ps_slices = <<>>
    /\ ps_allocs = <<>>
    /\ returned = None
    /\ call = None
    /\ start_params = None
    /\ optimize_iteration_counter = None
    /\ opt_results = <<>>
    /\ args_dicts = <<>>
    /\ evals = <<>>
    /\ save_path = "None"

\* no function is under evaluation
NoFunction ==
    /\ fargs = None
    /\ fres = None

\* the WA estimator does not run
NoWa ==
    /\ storage_df = <<>>
    /\ wa_pc = "idle"
    /\ wa_t = 0
    /\ wa_f = 0
    /\ wa_trace = <<>>

\* no likelihood evaluation runs
NoKalman ==
    /\ kin = None
    /\ kpc = "idle"
    /\ period_t = 0
    /\ meas_j = 0
    /\ update_k = 0
    /\ loglikes = <<>>
    /\ measurements = <<>>
    /\ states = <<>>
    /\ upper_chols = <<>>
    /\ log_mixture_weights = <<>>
    /\ ktrace = <<>>
    /\ value = None
    /\ additional_data = None
    /\ kret = None

KalmanInit ==
    /\ kin \in {i \in KalmanInputs : Len(i.nmeas) = i.n_periods}
    /\ kpc = "update"
    /\ period_t = 0
    /\ meas_j = 0
    /\ update_k = 0
    /\ loglikes = [r \in 1..n_updates(kin) |-> [c \in 1..n_obs |-> 0]]
    /\ measurements = <<>>
    /\ states = [i \in Individuals |-> <<>>]
    /\ upper_chols = [i \in Individuals |-> <<>>]
    /\ log_mixture_weights = [i \in Individuals |-> <<>>]
    /\ ktrace = <<>>
    /\ value = None
    /\ additional_data = None
    /\ kret = None

\* the rows measurements[k] can be: every individual has the measurement
\* or lacks it
NaN == "nan"

\* the data of one update: the row measurements[k], in which every individual
\* has the measurement or the first one lacks it, and the log likelihoods of
\* those who have it
UpdateData ==
    {[measurements_k |-> [i \in Individuals |-> IF i = 1 /\ row[1] = 0 THEN NaN
                                                ELSE "observed"],
      observed_loglikes |-> row] : row \in LoglikeRows}

\* kalman_update: an individual whose measurement is NaN keeps its state,
\* Cholesky factor and weights and gets the log likelihood 0; the others
\* get those of the update k, observed_loglikes being their log likelihoods
kalman_update(st, chols, measurements_k, weights, kk, observed_loglikes) ==
    LET updated(q) == [i \in Individuals |->
                          IF measurements_k[i] = NaN THEN q[i]
                          ELSE Append(q[i], <<"update", kk>>)]
    IN [new_states |-> updated(st),
        new_upper_chols |-> updated(chols),
        new_weights |-> updated(weights),
        loglikes_k |-> [i \in Individuals |->
                           IF measurements_k[i] = NaN THEN 0
                           ELSE observed_loglikes[i]]]

\* the new states are never taken
TakesNewStates_never(purpose_) == FALSE

\* the new states are taken in every update
TakesNewStates_always(purpose_) == TRUE

\* lines 213-214: if purpose == "measurement"
TakesNewStates(purpose_) == purpose_ = "measurement"

\* lines 199-216: one pass of the inner loop; the row measurements[k] is
\* chosen when it is read
KalmanUpdate ==
    /\ kpc = "update"
    /\ \E d \in UpdateData :
          LET u == kalman_update(states, upper_chols, d.measurements_k,
                                 log_mixture_weights, update_k, d.observed_loglikes)
          IN /\ measurements' = Append(measurements, d.measurements_k)
             /\ loglikes' = [loglikes EXCEPT ![update_k + 1] = u.loglikes_k]
             /\ log_mixture_weights' = u.new_weights
             /\ IF TakesNewStates(purpose(kin, period_t, meas_j))
                THEN /\ states' = u.new_states
                     /\ upper_chols' = u.new_upper_chols
                ELSE UNCHANGED <<states, upper_chols>>
    /\ ktrace' = Append(ktrace, <<"update", period_t, meas_j, update_k>>)
    /\ update_k' = NextUpdateIndex(update_k)
    /\ meas_j' = meas_j + 1
    /\ kpc' = IF meas_j + 1 < kin.nmeas[period_t + 1] THEN "update" ELSE "period_end"
    /\ UNCHANGED <<kin, period_t, value, additional_data, kret>>
    /\ UNCHANGED NotKalman

\* lines 218-248: the rest of the body of the loop over the periods
KalmanPeriodEnd ==
    /\ kpc = "period_end"
    /\ IF PredictRuns(kin, period_t)
       THEN /\ states' = [i \in Individuals |->
                               Append(states[i], <<"predict", period_t>>)]
            /\ upper_chols' = [i \in Individuals |->
                                    Append(upper_chols[i], <<"predict", period_t>>)]
            /\ ktrace' = Append(ktrace, <<"predict", period_t>>)
       ELSE UNCHANGED <<states, upper_chols, ktrace>>
    /\ value' = Some(ClippedValue(kin, loglikes))
    /\ additional_data' = Some(AdditionalData(kin, loglikes))
    /\ IF period_t + 1 < kin.n_periods
       THEN /\ period_t' = period_t + 1
            /\ meas_j' = 0
            /\ kpc' = "update"
       ELSE /\ kpc' = "return"
            /\ UNCHANGED <<period_t, meas_j>>
    /\ UNCHANGED <<kin, update_k, loglikes, measurements, log_mixture_weights, kret>>
    /\ UNCHANGED NotKalman

\* line 250
KalmanReturn ==
    /\ kpc = "return"
    /\ kret' = <<value[1], additional_data[1]>>
    /\ kpc' = "done"
    /\ UNCHANGED <<kin, period_t, meas_j, update_k, loglikes, measurements, states,
                   upper_chols, log_mixture_weights, ktrace, value, additional_data>>
    /\ UNCHANGED NotKalman

KalmanNext == KalmanUpdate \/ KalmanPeriodEnd \/ KalmanReturn

KalmanSpecInit == KalmanInit /\ NoModel /\ NoFunction /\ NoWa

SpecKalman == KalmanSpecInit /\ [][KalmanNext]_vars

(***************************************************************************)
(* Properties of _log_likelihood_jax.                                      *)
(***************************************************************************)
IsPrefix(s, u) == Len(s) <= Len(u) /\ \A i \in 1..Len(s) : s[i] = u[i]

\* The steps of period t and later, when kk updates ran before period t:
\* the updates of t in ascending index, the predict of t unless t is the
\* last period, then the steps of period t + 1.
RECURSIVE StepsFrom(_, _, _)
StepsFrom(inp, t, kk) ==
    IF t >= inp.n_periods THEN <<>>
    ELSE [jj \in 1..inp.nmeas[t + 1] |-> <<"update", t, jj - 1, kk + jj - 1>>]
         \o (IF t < inp.n_periods - 1 THEN << <<"predict", t>> >> ELSE <<>>)
         \o StepsFrom(inp, t + 1, kk + inp.nmeas[t + 1])

KalmanFinished == kpc \in {"return", "done"}

\* C1: the Kalman steps run in one fixed order: periods ascending, within a
\* period the updates in ascending update index, every update of period t
\* before the predict of t, the predict of t before the first update of
\* t + 1; at every moment the steps executed are an initial part of that
\* order, and when the recursion has ended none was skipped.
C1_FixedStepOrder ==
    /\ IsPrefix(ktrace, StepsFrom(kin, 0, 0))
    /\ KalmanFinished => ktrace = StepsFrom(kin, 0, 0)

C1_Witness ==
    /\ kpc = "done"
    /\ kin.n_periods >= 2
    /\ \E i \in 1..kin.n_periods : kin.nmeas[i] >= 2

NumPredicts(tr) == Cardinality({i \in 1..Len(tr) : tr[i][1] = "predict"})

\* C2: one predict runs after the updates of every period but the last and
\* none after the last period's updates: P periods execute exactly P - 1
\* predicts, and the recursion ends right after the last update of the last
\* period.
C2_PredictCount ==
    /\ \A i \in 1..Len(ktrace) :
          ktrace[i][1] = "predict" =>
             /\ ktrace[i][2] < kin.n_periods - 1
             /\ \A i2 \in 1..Len(ktrace) :
                   (ktrace[i2][1] = "predict" /\ ktrace[i2][2] = ktrace[i][2]) => i2 = i
    /\ KalmanFinished =>
          /\ NumPredicts(ktrace) = kin.n_periods - 1
          /\ ktrace[Len(ktrace)] =
                <<"update", kin.n_periods - 1, kin.nmeas[kin.n_periods] - 1,
                  n_updates(kin) - 1>>

C2_Witness ==
    /\ kpc = "done"
    /\ kin.n_periods >= 2
    /\ NumPredicts(ktrace) >= 1

\* the soft-clipped cell (update r, individual c) of the table
ClippedCell(r, c) ==
    soft_clip_elem(loglikes[r][c], kin.clipping_lower_bound, kin.clipping_upper_bound,
                   kin.clipping_lower_hardness, kin.clipping_upper_hardness)

RECURSIVE SumOverUpdates(_, _)
SumOverUpdates(r, c) == IF r = 0 THEN 0 ELSE ClippedCell(r, c) + SumOverUpdates(r - 1, c)

RECURSIVE SumOverIndividuals(_)
SumOverIndividuals(c) ==
    IF c = 0 THEN 0 ELSE SumOverUpdates(n_updates(kin), c) + SumOverIndividuals(c - 1)

MaxNfac == 2

MaxStages == 2

MaxNemf == 2

MaxMeas == 2

Transitions == {"linear", "log_ces", "constant"}

\* the columns of new_trans_coeffs: a constant factor has -1 in every stage,
\* any other factor 1 in stage 0 and 1 or 0 in the later stages
NewTransCoeffsColumns(nstages, name) ==
    IF name = "constant" THEN {[s \in 1..nstages |-> -1]}
    ELSE {c \in [1..nstages -> {0, 1}] : c[1] = 1}

NewTransCoeffsChoices(nstages, names) ==
    LET columns == UNION {NewTransCoeffsColumns(nstages, n) : n \in Transitions}
    IN { [s \in 1..nstages |-> [f \in 1..Len(names) |-> cols[f][s]]] :
           cols \in {c \in [1..Len(names) -> columns] :
                        \A f \in 1..Len(names) :
                            c[f] \in NewTransCoeffsColumns(nstages, names[f])} }

\* models that vary in shape
ShapeModelsOf(nf, ns) ==
    UNION { { [estimator |-> "chs", nemf |-> 1, nfac |-> nf, nstages |-> ns,
               nperiods |-> ns + 1, nmeas |-> nm, ncontrols |-> 1, normalize |-> TRUE,
               transition_names |-> tn, new_trans_coeffs |-> ntc,
               estimate_X_zeros |-> FALSE, endog_correction |-> FALSE,
               restrict_W_zeros |-> TRUE, restrict_P_zeros |-> FALSE,
               robust_bounds |-> TRUE, bounds_distance |-> 1] :
                 ntc \in NewTransCoeffsChoices(ns, tn), nm \in 1..MaxMeas } :
            tn \in [1..nf -> Transitions] }

ShapeModels == UNION {ShapeModelsOf(nf, ns) : nf \in 1..MaxNfac, ns \in 1..MaxStages}

\* models that vary in their options
OptionModels ==
    { [estimator |-> es, nemf |-> ne, nfac |-> nf, nstages |-> 1,
       nperiods |-> 2, nmeas |-> 2, ncontrols |-> 0, normalize |-> no,
       transition_names |-> [f \in 1..nf |-> "log_ces"],
       new_trans_coeffs |-> << [f \in 1..nf |-> 1] >>,
       estimate_X_zeros |-> ex, endog_correction |-> en,
       restrict_W_zeros |-> rw, restrict_P_zeros |-> rp,
       robust_bounds |-> rb, bounds_distance |-> 1] :
        es \in {"chs", "wa"}, ne \in 1..MaxNemf, nf \in 1..MaxNfac,
        no \in BOOLEAN, ex \in BOOLEAN, en \in BOOLEAN, rw \in BOOLEAN,
        rp \in BOOLEAN, rb \in BOOLEAN }

Models == ShapeModels \cup OptionModels

\* lines 65-73: self.params_quants
params_quants(m) ==
    <<"deltas", "H", "R", "Q", "P_zero", "trans_coeffs">>
    \o (IF m.estimate_X_zeros THEN <<"X_zero">> ELSE <<>>)
    \o (IF m.endog_correction THEN <<"psi", "tau">> ELSE <<>>)
    \o (IF ~m.restrict_W_zeros /\ m.estimator = "chs" THEN <<"W_zero">> ELSE <<>>)

\* update_info: has_normalized_intercept / a normalized loading of update j
IsNormalized(m, jj) == m.normalize /\ jj < m.nfac

\* the factor update j measures
MeasuredFactor(m, jj) == jj % m.nfac

nupdates(m) == m.nperiods * m.nmeas

\* tf.nr_coeffs_<name>(included_factors, params_type), all factors included
nr_coeffs(name, nincluded, params_type) ==
    CASE name = "linear" -> nincluded
      [] name = "log_ces" -> IF params_type = "short" THEN nincluded ELSE nincluded + 1
      [] name = "constant" -> 0

\* slice(start, stop), and a Python list of slices or of lists of slices
Slice(start, stop) == <<"slice", start, stop>>

List(items) == <<"list", items>>

IsList(x) == x[1] = "list"

SliceLen(sl) == sl[3] - sl[2]

\* the positions a slice selects
SliceRange(sl) == sl[2]..(sl[3] - 1)

\* the counter goes on from where the last call stopped
CounterStart_leftover == IF returned # None THEN returned[1].counter ELSE 0

\* line 627: self.param_counter = 0
CounterStart == 0

\* lines 90-96: _general_params_slice; st is [counter, allocs], allocs the
\* slices handed out so far
_general_params_slice(st, length) ==
    LET res == Slice(st.counter, st.counter + length)
    IN [res |-> res, counter |-> st.counter + length,
        allocs |-> Append(st.allocs, res)]

\* lines 116-133: deltas_bool[t].sum()
deltas_length(m, t) ==
    SumSeq([jj \in 1..m.nmeas |->
               m.ncontrols + 1 - (IF IsNormalized(m, jj - 1) THEN 1 ELSE 0)])

\* lines 135-147
RECURSIVE _params_slice_for_deltas_from(_, _, _, _)
_params_slice_for_deltas_from(m, t, acc, st) ==
    IF t >= m.nperiods THEN [res |-> List(acc), counter |-> st.counter, allocs |-> st.allocs]
    ELSE LET g == _general_params_slice(st, deltas_length(m, t))
         IN _params_slice_for_deltas_from(m, t + 1, Append(acc, g.res), g)

_params_slice_for_deltas(m, params_type, st) ==
    _params_slice_for_deltas_from(m, 0, <<>>, st)

\* lines 249-258: _H_bool().sum(); every update measures one factor
H_length(m) ==
    m.nperiods * Cardinality({jj \in 0..(m.nmeas - 1) : ~IsNormalized(m, jj)})

\* lines 287-295
_params_slice_for_H(m, params_type, st) == _general_params_slice(st, H_length(m))

\* lines 312-319
_params_slice_for_R(m, params_type, st) == _general_params_slice(st, nupdates(m))

\* lines 336-346: _Q_bool; the diagonal entry (s, f, f) is True where
\* new_trans_coeffs[s, f] == 1
_Q_bool(m, s, f) == m.new_trans_coeffs[s + 1][f + 1] = 1

Q_length(m) ==
    Cardinality({sf \in (0..(m.nstages - 1)) \X (0..(m.nfac - 1)) : _Q_bool(m, sf[1], sf[2])})

\* lines 348-356
_params_slice_for_Q(m, params_type, st) == _general_params_slice(st, Q_length(m))

nr_upper_triangular_elements(m) == (m.nfac * (m.nfac + 1)) \div 2

\* lines 468, 506, 519: nr_matrices
nr_matrices(m) == IF m.restrict_P_zeros THEN 1 ELSE m.nemf

\* lines 491-495: the length of the P_zero slice
P_zero_length(m) ==
    IF m.restrict_P_zeros \/ m.estimator = "wa"
    THEN nr_upper_triangular_elements(m)
    ELSE nr_upper_triangular_elements(m) * m.nemf

\* lines 484-496
_params_slice_for_P_zero(m, params_type, st) ==
    _general_params_slice(st, P_zero_length(m))

\* a stage that repeats the previous one gets a slice of its own
AllocatesTransCoeffs_always(v) == TRUE

\* line 552: new_trans_coeffs[s, f] in [1, -1]
AllocatesTransCoeffs(v) == v \in {1, -1}

\* lines 549-559: the loop over product(range(nfac), stages); acc is slices
RECURSIVE _params_slice_for_trans_coeffs_from(_, _, _, _, _, _)
_params_slice_for_trans_coeffs_from(m, params_type, f, s, acc, st) ==
    IF f >= m.nfac
    THEN [res |-> List([i \in 1..Len(acc) |-> List(acc[i])]),
          counter |-> st.counter, allocs |-> st.allocs]
    ELSE IF s >= m.nstages
    THEN _params_slice_for_trans_coeffs_from(m, params_type, f + 1, 0, acc, st)
    ELSE IF AllocatesTransCoeffs(m.new_trans_coeffs[s + 1][f + 1])
    THEN LET g == _general_params_slice(
                      st, nr_coeffs(m.transition_names[f + 1], m.nfac, params_type))
         IN _params_slice_for_trans_coeffs_from(
                m, params_type, f, s + 1,
                [acc EXCEPT ![f + 1] = Append(acc[f + 1], g.res)], g)
    ELSE \* slices[f][s - 1]; Python's index -1 is the last element
         LET prev == IF s = 0 THEN acc[f + 1][Len(acc[f + 1])] ELSE acc[f + 1][s]
         IN _params_slice_for_trans_coeffs_from(
                m, params_type, f, s + 1,
                [acc EXCEPT ![f + 1] = Append(acc[f + 1], prev)], st)

_params_slice_for_trans_coeffs(m, params_type, st) ==
    _params_slice_for_trans_coeffs_from(
        m, params_type, 0, 0, [f \in 1..m.nfac |-> <<>>], st)

\* lines 394-401
_params_slice_for_X_zero(m, params_type, st) ==
    _general_params_slice(st, m.nemf * m.nfac)

\* lines 180-188
_params_slice_for_psi(m, params_type, st) == _general_params_slice(st, m.nfac - 1)

\* lines 204-216: every factor but the endogenous one includes the endogenous
\* factor, so its column of _tau_bool is True
_tau_bool(m, s, f) == f # 0

tau_length(m) ==
    Cardinality({sf \in (0..(m.nstages - 1)) \X (0..(m.nfac - 1)) : _tau_bool(m, sf[1], sf[2])})

\* lines 218-226
_params_slice_for_tau(m, params_type, st) == _general_params_slice(st, tau_length(m))

\* lines 440-447
_params_slice_for_W_zero(m, params_type, st) == _general_params_slice(st, m.nemf)

\* line 631: getattr(self, '_params_slice_for_{}'.format(quantity))(params_type)
_params_slice_for(quantity, m, params_type, st) ==
    CASE quantity = "deltas" -> _params_slice_for_deltas(m, params_type, st)
      [] quantity = "H" -> _params_slice_for_H(m, params_type, st)
      [] quantity = "R" -> _params_slice_for_R(m, params_type, st)
      [] quantity = "Q" -> _params_slice_for_Q(m, params_type, st)
      [] quantity = "P_zero" -> _params_slice_for_P_zero(m, params_type, st)
      [] quantity = "trans_coeffs" -> _params_slice_for_trans_coeffs(m, params_type, st)
      [] quantity = "X_zero" -> _params_slice_for_X_zero(m, params_type, st)
      [] quantity = "psi" -> _params_slice_for_psi(m, params_type, st)
      [] quantity = "tau" -> _params_slice_for_tau(m, params_type, st)
      [] quantity = "W_zero" -> _params_slice_for_W_zero(m, params_type, st)

\* a dict as a sequence of <<key, value>> pairs in insertion order
DictGet(d, key) == d[CHOOSE i \in 1..Len(d) : d[i][1] = key][2]

DictKeys(d) == [i \in 1..Len(d) |-> d[i][1]]

\* lines 627-634: the loop of params_slices over the quantities from the
\* i-th on; d is the dict slices
RECURSIVE params_slices_from(_, _, _, _, _)
params_slices_from(m, params_type, i, d, st) ==
    IF i > Len(params_quants(m))
    THEN [slices |-> d, counter |-> st.counter, allocs |-> st.allocs]
    ELSE LET q == params_quants(m)[i]
             g == _params_slice_for(q, m, params_type, st)
         IN params_slices_from(m, params_type, i + 1, Append(d, <<q, g.res>>), g)

\* lines 614-634: params_slices, run from start to end
params_slices_run(m, params_type) ==
    params_slices_from(m, params_type, 1, <<>>, [counter |-> CounterStart, allocs |-> <<>>])

params_slices(m, params_type) == params_slices_run(m, params_type).slices

\* lines 640-641 and 677-679: while type(x) == list: x = x[-1]
\* the last slice of the first list of a list of lists
LastSlice_of_first_list(x) ==
    IF ~IsList(x) THEN x
    ELSE IF IsList(x[2][1]) THEN x[2][1][2][Len(x[2][1][2])]
    ELSE x[2][Len(x[2])]

RECURSIVE LastSlice(_)
LastSlice(x) == IF IsList(x) THEN LastSlice(x[2][Len(x[2])]) ELSE x

\* lines 673-675: while type(x) == list: x = x[0]
RECURSIVE FirstSlice(_)
FirstSlice(x) == IF IsList(x) THEN FirstSlice(x[2][1]) ELSE x

\* lines 636-643
len_params(m, params_type) ==
    LET slices == params_slices(m, params_type)
        last_slice == LastSlice(DictGet(slices, params_quants(m)[Len(params_quants(m))]))
    IN last_slice[3]

\* lines 672-681
_flatten_slice_list(slice_list) ==
    Slice(FirstSlice(slice_list)[2], LastSlice(slice_list)[3])

RECURSIVE Concat(_)
Concat(ss) == IF ss = <<>> THEN <<>> ELSE Head(ss) \o Concat(Tail(ss))

\* the result of a call: a returned value or a raised exception
Returned(v) == [ok |-> TRUE, val |-> v]

Raised(e) == [ok |-> FALSE, err |-> e]

\* lines 149-164
_deltas_names(m, params_type) ==
    Concat([tt \in 1..m.nperiods |->
        Concat([u \in 1..m.nmeas |->
            (IF ~IsNormalized(m, u - 1) THEN << <<"delta", tt - 1, u - 1, "constant">> >>
             ELSE <<>>)
            \o [c \in 1..m.ncontrols |-> <<"delta", tt - 1, u - 1, "control", c>>]])])

\* lines 297-306
_H_names(m, params_type) ==
    Concat([tt \in 1..m.nperiods |->
        Concat([u \in 1..m.nmeas |->
            Concat([f \in 1..m.nfac |->
                IF MeasuredFactor(m, u - 1) = f - 1 /\ ~IsNormalized(m, u - 1)
                THEN << <<"H", tt - 1, f - 1, u - 1>> >> ELSE <<>>])])])

\* lines 321-325
_R_names(m, params_type) ==
    Concat([tt \in 1..m.nperiods |-> [u \in 1..m.nmeas |-> <<"R", tt - 1, u - 1>>]])

\* lines 358-364
_Q_names(m, params_type) ==
    Concat([s \in 1..m.nstages |->
        Concat([f \in 1..m.nfac |->
            IF m.new_trans_coeffs[s][f] = 1 THEN << <<"Q", s - 1, f - 1>> >> ELSE <<>>])])

\* lines 498-514
_P_zero_names(m, params_type) ==
    Concat([mat \in 1..nr_matrices(m) |->
        Concat([row \in 1..m.nfac |->
            Concat([column \in 1..m.nfac |->
                IF row <= column THEN << <<"P_zero", mat - 1, row - 1, column - 1>> >>
                ELSE <<>>])])])

\* lines 577-596
_trans_coeffs_names(m, params_type) ==
    Concat([f \in 1..m.nfac |->
        Concat([s \in 1..m.nstages |->
            IF m.new_trans_coeffs[s][f] \in {-1, 1}
            THEN [i \in 1..nr_coeffs(m.transition_names[f], m.nfac, params_type) |->
                     <<"trans_coeff", s - 1, f - 1, i - 1>>]
            ELSE <<>>])])

\* lines 425-434
_X_zero_names(m, params_type) ==
    Concat([n \in 1..m.nemf |-> [f \in 1..m.nfac |->
        IF params_type = "long" \/ n = 1 \/ f # 1
        THEN <<"X_zero", n - 1, f - 1>> ELSE <<"diff_X_zero", n - 1, f - 1>>]])

\* lines 449-451
_W_zero_names(m, params_type) == [n \in 1..m.nemf |-> <<"W_zero", n - 1>>]

\* lines 190-196
_psi_names(m, params_type) ==
    Concat([f \in 1..m.nfac |-> IF f # 1 THEN << <<"psi", f - 1>> >> ELSE <<>>])

\* lines 228-235
_tau_names(m, params_type) ==
    Concat([s \in 1..m.nstages |->
        Concat([f \in 1..m.nfac |->
            IF _tau_bool(m, s - 1, f - 1) THEN << <<"tau", s - 1, f - 1>> >> ELSE <<>>])])

\* line 668: getattr(self, '_{}_names'.format(quantity))(params_type)
_names_for(quantity, m, params_type) ==
    CASE quantity = "deltas" -> _deltas_names(m, params_type)
      [] quantity = "H" -> _H_names(m, params_type)
      [] quantity = "R" -> _R_names(m, params_type)
      [] quantity = "Q" -> _Q_names(m, params_type)
      [] quantity = "P_zero" -> _P_zero_names(m, params_type)
      [] quantity = "trans_coeffs" -> _trans_coeffs_names(m, params_type)
      [] quantity = "X_zero" -> _X_zero_names(m, params_type)
      [] quantity = "psi" -> _psi_names(m, params_type)
      [] quantity = "tau" -> _tau_names(m, params_type)
      [] quantity = "W_zero" -> _W_zero_names(m, params_type)

\* lines 663-670
param_names(m, params_type) ==
    LET names == Concat([i \in 1..Len(params_quants(m)) |->
                            _names_for(params_quants(m)[i], m, params_type)])
    IN IF Len(names) = len_params(m, params_type)
       THEN Returned(names) ELSE Raised("AssertionError")

(***************************************************************************)
(* bounds_list.  A bound is None or Some(number); lower_bound and          *)
(* upper_bound are sequences, slot p of the arrays is element p + 1.       *)
(***************************************************************************)
\* arr[sl] = values, values a sequence as long as the slice
SetSlice(arr, sl, values) ==
    [p \in 1..Len(arr) |-> IF p - 1 \in SliceRange(sl) THEN values[p - sl[2]] ELSE arr[p]]

\* arr[sl] = v, a scalar
FillSlice(arr, sl, v) ==
    [p \in 1..Len(arr) |-> IF p - 1 \in SliceRange(sl) THEN v ELSE arr[p]]

\* the variances are bounded by bounds_distance whatever robust_bounds is
RobustLowerBound_always(m) == Some(m.bounds_distance)

\* lines 330, 382, 530: self.robust_bounds * self.bounds_distance
RobustLowerBound(m) == Some(IF m.robust_bounds THEN m.bounds_distance ELSE 0)

\* lines 327-330; b is [lower_bound, upper_bound]
_set_bounds_for_R(m, b, params_slice) ==
    Returned([b EXCEPT !.lower_bound = FillSlice(@, params_slice, RobustLowerBound(m))])

\* lines 379-382
_set_bounds_for_Q(m, b, params_slice) ==
    Returned([b EXCEPT !.lower_bound = FillSlice(@, params_slice, RobustLowerBound(m))])

\* the rows of the triangle are taken to be as long as the first one
diagonal_position_full_rows(nfac, i) == i * nfac

\* line 527: np.cumsum([0] + list(range(nfac, 1, -1)))
RECURSIVE diagonal_position(_, _)
diagonal_position(nfac, i) ==
    IF i = 0 THEN 0 ELSE diagonal_position(nfac, i - 1) + (nfac - i + 1)

diagonal_positions(nfac) == {diagonal_position(nfac, i) : i \in 0..(nfac - 1)}

\* lines 516-530
_set_bounds_for_P_zero(m, b, params_slice) ==
    LET params_per_matrix == nr_upper_triangular_elements(m)
    IN IF SliceLen(params_slice) # nr_matrices(m) * params_per_matrix
       THEN Raised("AssertionError")
       ELSE Returned([b EXCEPT !.lower_bound =
                [p \in 1..Len(@) |->
                    IF /\ p - 1 \in SliceRange(params_slice)
                       /\ ((p - 1 - params_slice[2]) % params_per_matrix)
                              \in diagonal_positions(m.nfac)
                    THEN RobustLowerBound(m) ELSE @[p]]])

\* hasattr(tf, 'bounds_<name>'): only the log_ces transition defines bounds
has_bounds_func(name) == name = "log_ces"

\* tf.bounds_log_ces(included_factors): the lower bounds are 0 for all
\* coefficients but the last, the upper bounds are all None
bounds_log_ces(nincluded) ==
    [lb |-> [i \in 1..nincluded |-> IF i < nincluded THEN Some(0) ELSE None],
     ub |-> [i \in 1..nincluded |-> None]]

\* lines 561-575: the loop over product(range(nfac), stages)
RECURSIVE _set_bounds_for_trans_coeffs_from(_, _, _, _, _)
_set_bounds_for_trans_coeffs_from(m, b, params_slice, f, s) ==
    IF f >= m.nfac THEN Returned(b)
    ELSE IF s >= m.nstages
    THEN _set_bounds_for_trans_coeffs_from(m, b, params_slice, f + 1, 0)
    ELSE LET sl == params_slice[2][f + 1][2][s + 1]
             bd == bounds_log_ces(m.nfac)
         IN IF /\ has_bounds_func(m.transition_names[f + 1])
               /\ m.new_trans_coeffs[s + 1][f + 1] \in {-1, 1}
            THEN _set_bounds_for_trans_coeffs_from(
                     m, [lower_bound |-> SetSlice(b.lower_bound, sl, bd.lb),
                         upper_bound |-> SetSlice(b.upper_bound, sl, bd.ub)],
                     params_slice, f, s + 1)
            ELSE _set_bounds_for_trans_coeffs_from(m, b, params_slice, f, s + 1)

_set_bounds_for_trans_coeffs(m, b, params_slice) ==
    _set_bounds_for_trans_coeffs_from(m, b, params_slice, 0, 0)

\* lines 418-423: the rows 1.. of column order_X_zeros (the first factor)
_set_bounds_for_X_zero(m, b, params_slice) ==
    Returned([b EXCEPT !.lower_bound =
        [p \in 1..Len(@) |->
            IF /\ p - 1 \in SliceRange(params_slice)
               /\ m.nemf > 1
               /\ (p - 1 - params_slice[2]) \div m.nfac >= 1
               /\ (p - 1 - params_slice[2]) % m.nfac = 0
            THEN Some(0) ELSE @[p]]])

\* line 655: hasattr(self, '_set_bounds_for_{}'.format(quantity))
has_set_bounds(quantity) == quantity \in {"R", "Q", "P_zero", "trans_coeffs", "X_zero"}

\* line 656
_set_bounds_for(quantity, m, b, params_slice) ==
    CASE quantity = "R" -> _set_bounds_for_R(m, b, params_slice)
      [] quantity = "Q" -> _set_bounds_for_Q(m, b, params_slice)
      [] quantity = "P_zero" -> _set_bounds_for_P_zero(m, b, params_slice)
      [] quantity = "trans_coeffs" -> _set_bounds_for_trans_coeffs(m, b, params_slice)
      [] quantity = "X_zero" -> _set_bounds_for_X_zero(m, b, params_slice)

\* lines 652-656: the loop over the quantities from the i-th on
RECURSIVE bounds_list_from(_, _, _, _)
bounds_list_from(m, slices, i, b) ==
    IF i > Len(params_quants(m)) THEN Returned(b)
    ELSE LET q == params_quants(m)[i]
         IN IF has_set_bounds(q)
            THEN LET r == _set_bounds_for(q, m, b, DictGet(slices, q))
                 IN IF r.ok THEN bounds_list_from(m, slices, i + 1, r.val) ELSE r
            ELSE bounds_list_from(m, slices, i + 1, b)

\* lines 645-661: list(zip(lower_bound, upper_bound))
bounds_list(m) ==
    LET n == len_params(m, "short")
        empty == [p \in 1..n |-> None]
        r == bounds_list_from(m, params_slices(m, "short"), 1,
                              [lower_bound |-> empty, upper_bound |-> empty])
    IN IF ~r.ok THEN r
       ELSE IF Len(r.val.lower_bound) # len_params(m, "short") THEN Raised("AssertionError")
       ELSE Returned([p \in 1..n |-> <<r.val.lower_bound[p], r.val.upper_bound[p]>>])

(***************************************************************************)
(* params_slices, step by step: the attribute param_counter is set, every  *)
(* quantity's _params_slice_for_ method runs in the order of               *)
(* params_quants, and the attribute is deleted.                            *)
(***************************************************************************)
ParamsTypes == {"short", "long"}

LayoutInit ==
    /\ model \in Models
    /\ param_counter = None
    /\ ps_pc = 0
    /\ ps_type = None
    /\ ps_slices = <<>>
    /\ ps_allocs = <<>>
    /\ returned = None
    /\ call = None

\* line 627
ParamsSlicesBegin ==
    /\ ps_pc = 0
    /\ \E params_type \in ParamsTypes : ps_type' = Some(params_type)
    /\ param_counter' = Some(CounterStart)
    /\ ps_slices' = <<>>
    /\ ps_allocs' = <<>>
    /\ ps_pc' = 1
    /\ UNCHANGED <<model, returned, call>>
    /\ UNCHANGED evars
    /\ UNCHANGED NotLayout

\* lines 629-631: one pass of the loop
ParamsSlicesQuantity ==
    /\ ps_pc \in 1..Len(params_quants(model))
    /\ LET quantity == params_quants(model)[ps_pc]
           g == _params_slice_for(quantity, model, ps_type[1],
                                  [counter |-> param_counter[1], allocs |-> ps_allocs])
       IN /\ ps_slices' = Append(ps_slices, <<quantity, g.res>>)
          /\ param_counter' = Some(g.counter)
          /\ ps_allocs' = g.allocs
    /\ ps_pc' = ps_pc + 1
    /\ UNCHANGED <<model, ps_type, returned, call>>
    /\ UNCHANGED evars
    /\ UNCHANGED NotLayout

\* lines 633-634
ParamsSlicesEnd ==
    /\ ps_pc = Len(params_quants(model)) + 1
    /\ param_counter' = None
    /\ returned' = Some([params_type |-> ps_type[1], slices |-> ps_slices,
                         allocs |-> ps_allocs, counter |-> param_counter[1]])
    /\ ps_pc' = 0
    /\ UNCHANGED <<model, ps_type, ps_slices, ps_allocs, call>>
    /\ UNCHANGED evars
    /\ UNCHANGED NotLayout

SlicesNext == ParamsSlicesBegin \/ ParamsSlicesQuantity \/ ParamsSlicesEnd

\* no estimation has run and no likelihood evaluation is under way
NoEstimation ==
    /\ start_params = None
    /\ optimize_iteration_counter = None
    /\ opt_results = <<>>
    /\ args_dicts = <<>>
    /\ evals = <<>>
    /\ save_path = "writable"

SlicesInit == LayoutInit /\ NoEstimation /\ NoKalman /\ NoFunction /\ NoWa

SpecSlices == SlicesInit /\ [][SlicesNext]_vars

(***************************************************************************)
(* Properties of params_slices.                                            *)
(***************************************************************************)
ParamsSlicesComplete == ps_pc = Len(params_quants(model)) + 1

\* C5: params_slices allocates in the fixed order of params_quants: the first
\* freshly allocated slice starts at 0 and every freshly allocated slice
\* starts where the one allocated before it stopped, so the fresh slices are
\* pairwise disjoint and cover 0..len_params-1 without gaps; and a call
\* returns the same slices as the last call with the same params_type.
C5_ConsecutiveSlices ==
    ps_pc > 0 =>
        /\ DictKeys(ps_slices) = SubSeq(params_quants(model), 1, ps_pc - 1)
        /\ ps_allocs # <<>> =>
              /\ ps_allocs[1][2] = 0
              /\ ps_allocs[Len(ps_allocs)][3] = param_counter[1]
        /\ \A i \in 1..(Len(ps_allocs) - 1) : ps_allocs[i + 1][2] = ps_allocs[i][3]
        /\ \A i \in 1..(Len(ps_slices) - 1) :
              FirstSlice(ps_slices[i + 1][2])[2] = LastSlice(ps_slices[i][2])[3]
        /\ \A i, i2 \in 1..Len(ps_allocs) :
              i # i2 => SliceRange(ps_allocs[i]) \cap SliceRange(ps_allocs[i2]) = {}
        /\ ParamsSlicesComplete =>
              /\ UNION {SliceRange(ps_allocs[i]) : i \in 1..Len(ps_allocs)}
                    = 0..(len_params(model, ps_type[1]) - 1)
              /\ (returned # None /\ returned[1].params_type = ps_type[1])
                    => ps_slices = returned[1].slices

C5_Witness ==
    /\ ParamsSlicesComplete
    /\ returned # None
    /\ returned[1].params_type = ps_type[1]
    /\ param_counter[1] > 0
    /\ model.nstages >= 2
    /\ model.nfac >= 2

\* the slices of trans_coeffs in the dict under construction
TransCoeffsSlices == DictGet(ps_slices, "trans_coeffs")[2]

TransCoeffsSlice(f, s) == TransCoeffsSlices[f + 1][2][s + 1]

TransCoeffsDone == ps_pc > 0 /\ \E i \in 1..Len(ps_slices) : ps_slices[i][1] = "trans_coeffs"

\* the (factor, stage) pairs that get a fresh slice, in allocation order
FreshTransCoeffs(m) ==
    Concat([f \in 1..m.nfac |->
        Concat([s \in 1..m.nstages |->
            IF m.new_trans_coeffs[s][f] # 0 THEN << <<f - 1, s - 1>> >> ELSE <<>>])])

\* the stage that opened the run of equality-constrained stages s lies in
RECURSIVE RunOpener(_, _, _)
RunOpener(m, f, s) ==
    IF s = 0 \/ m.new_trans_coeffs[s + 1][f + 1] # 0 THEN s ELSE RunOpener(m, f, s - 1)

\* C6: where new_trans_coeffs[s, f] is 0 the slice of (f, s) is the slice of
\* (f, s - 1) and no slot is consumed; where it is 1 or -1 a fresh slice of
\* nr_coeffs length is allocated; so every stage of a run of equality-
\* constrained stages reads the slots of the stage that opened the run.
C6_AliasedTransCoeffs ==
    TransCoeffsDone =>
        LET fresh == FreshTransCoeffs(model)
            before == DictGet(ps_slices, "P_zero")
        IN /\ \A f \in 0..(model.nfac - 1), s \in 0..(model.nstages - 1) :
                 /\ model.new_trans_coeffs[s + 1][f + 1] = 0 =>
                       TransCoeffsSlice(f, s) = TransCoeffsSlice(f, s - 1)
                 /\ model.new_trans_coeffs[s + 1][f + 1] \in {1, -1} =>
                       SliceLen(TransCoeffsSlice(f, s)) =
                           nr_coeffs(model.transition_names[f + 1], model.nfac, ps_type[1])
                 /\ TransCoeffsSlice(f, s) = TransCoeffsSlice(f, RunOpener(model, f, s))
           /\ ps_pc = 7 =>
                 /\ Len(ps_allocs) = model.nperiods + 4 + Len(fresh)
                 /\ \A i \in 1..Len(fresh) :
                       ps_allocs[model.nperiods + 4 + i] =
                           TransCoeffsSlice(fresh[i][1], fresh[i][2])
                 /\ param_counter[1] = before[3] +
                       SumSeq([i \in 1..Len(fresh) |->
                                  nr_coeffs(model.transition_names[fresh[i][1] + 1],
                                            model.nfac, ps_type[1])])

C6_Witness ==
    /\ TransCoeffsDone
    /\ ps_pc = 7
    /\ \E f \in 0..(model.nfac - 1), s \in 1..(model.nstages - 1) :
          /\ model.new_trans_coeffs[s + 1][f + 1] = 0
          /\ SliceLen(TransCoeffsSlice(f, s)) > 0

(***************************************************************************)
(* The methods that take a parameter vector.  A vector is a sequence of    *)
(* numbers; an entry of a long vector records where its value comes from:  *)
(* <<"params", q, v>> is the value v copied from the short vector for the  *)
(* quantity q, <<"pp", q, k>> the k-th entry of what                       *)
(* pp.transform_params_for_<q> returned.                                   *)
(***************************************************************************)
\* the vector of length n used as input
Vec(n) == [i \in 1..n |-> i]

\* the outcome of an entry point: what it returned or raised, and the steps
\* that computed something from the vector before that
Outcome(out, computed) == [out |-> out, computed |-> computed]

\* the length is compared with the long length
expandparams_assert_long(m, params) == Len(params) = len_params(m, "long")

\* lines 724-726: assert len(params) == short_len
expandparams_assert(m, params) == Len(params) = len_params(m, "short")

\* the slice of a quantity as expandparams uses it (lines 690-695)
ExpandSlice(slices, quant, flatten) ==
    IF quant \in flatten THEN _flatten_slice_list(DictGet(slices, quant))
    ELSE DictGet(slices, quant)

\* lines 684-738
expandparams(m, params) ==
    LET short_slices == params_slices(m, "short")
        long_slices == params_slices(m, "long")
        long_len == len_params(m, "long")
        quants == params_quants(m)
        to_transform == {"X_zero", "P_zero", "trans_coeffs"}
        short(q) == ExpandSlice(short_slices, q, {"deltas"})
        long(q) == ExpandSlice(long_slices, q, {"deltas", "trans_coeffs"})
        copied == {quants[i] : i \in 1..Len(quants)} \ to_transform
        QuantAt(p) == CHOOSE q \in {quants[i] : i \in 1..Len(quants)} :
                          p \in SliceRange(long(q))
    IN IF ~expandparams_assert(m, params)
       THEN Outcome(Raised("AssertionError: invalid length"), <<>>)
       ELSE IF \E q \in copied : SliceLen(long(q)) # SliceLen(short(q))
       THEN Outcome(Raised("ValueError"), <<"long_params">>)
       ELSE Outcome(Returned([p \in 1..long_len |->
                LET q == QuantAt(p - 1)
                    k == p - 1 - long(q)[2]
                IN IF q \in to_transform THEN <<"pp", q, k>>
                   ELSE <<"params", q, params[short(q)[2] + k + 1]>>]),
                <<"long_params">>)

\* lines 740-743
reduceparams(m, params) == Raised("NotImplementedError")

\* lines 745-792; the values of start_values_per_quantity are left at 0
generate_start_params(m, stored) ==
    IF stored # None
    THEN IF Len(stored[1]) # len_params(m, "short")
         THEN Raised("AssertionError: invalid length")
         ELSE Returned(stored[1])
    ELSE IF SliceLen(DictGet(params_slices(m, "short"), "P_zero"))
               # nr_matrices(m) * nr_upper_triangular_elements(m)
         THEN Raised("ValueError")
         ELSE Returned([i \in 1..len_params(m, "short") |-> 0])

\* lines 958-978; _update_args_dict reads self.c_data[t] (line 895), which is
\* None unless the estimator is chs (line 58)
likelihood_arguments_dict(m, params_type) ==
    IF m.estimator = "chs" THEN Returned([params_type |-> params_type])
    ELSE Raised("TypeError")

\* lines 1387-1403 and 1405-1415: both functions check the length, build the
\* arguments and differentiate the likelihood
CovFunctions == {"op_of_gradient_cov_matrix", "hessian_inverse_cov_matrix"}

cov_matrix(func, m, params, params_type) ==
    IF Len(params) # len_params(m, params_type)
    THEN Outcome(Raised("AssertionError: invalid length"), <<>>)
    ELSE LET args == likelihood_arguments_dict(m, params_type)
         IN IF ~args.ok THEN Outcome(args, <<>>)
            ELSE Outcome(Returned(<<"cov", Len(params), Len(params)>>),
                         <<IF func = "op_of_gradient_cov_matrix"
                           THEN "score_obs" ELSE "hessian", "cov">>)

\* the numbers of evaluations minimize makes before it stops (self.maxiter,
\* self.maxfun, lines 1005-1006)
NfevChoices == {1, 2}

\* scipy's L-BFGS-B, called with bounds, refuses a start vector that is not as
\* long as the bounds before it evaluates the criterion (lines 1003-1006)
minimize_accepts(x0, bounds) == Len(x0) = Len(bounds)

\* self.save_path: None (the default of __init__), a directory whose
\* opt_results cannot be written, or one that can
SavePaths == {"None", "unwritable", "writable"}

\* lines 984-985: what forming the path and opening the file raises, None
\* if the file is opened
LogError(path, counter) ==
    IF path = "None" THEN Some("TypeError")
    ELSE IF counter = None THEN Some("AttributeError")
    ELSE IF path = "unwritable" THEN Some("OSError")
    ELSE None

\* the vector minimize hands to the criterion in its k-th evaluation when
\* started at x0; the evaluation 0 is at x0
Iterate(x0, k) == [x0 |-> x0, k |-> k]

\* lines 984-986: json.dump(params.tolist()) into iteration<counter>.json;
\* opt_results[k + 1] is the content of iteration<k>.json, None if there is
\* no such file
WriteIterationFile(files, counter, params) ==
    [j \in 1..Max(Len(files), counter + 1) |->
        IF j = counter + 1 THEN Some(params)
        ELSE IF j <= Len(files) THEN files[j] ELSE None]

\* the evaluations of one minimisation: nloglike writes
\* iteration<counter>.json for counter = 0..nfev-1
RECURSIVE WriteIterations(_, _, _)
WriteIterations(files, x0, nfev) ==
    IF nfev = 0 THEN files
    ELSE WriteIterationFile(WriteIterations(files, x0, nfev - 1), nfev - 1,
                            Iterate(x0, nfev - 1))

\* lines 996-1019, with the default return_optimize_dict; nfev is the number
\* of evaluations minimize makes
estimate_params_chs(m, stored, given, params_type, nfev, counter, files) ==
    LET sp == IF given = None THEN generate_start_params(m, stored)
              ELSE Returned(given[1])
        bounds == bounds_list(m)
        args == likelihood_arguments_dict(m, "short")
        unchanged(out) == [res |-> Outcome(out, <<>>), counter |-> counter,
                           files |-> files]
    IN IF ~sp.ok THEN unchanged(sp)
       ELSE IF ~bounds.ok THEN unchanged(bounds)
       ELSE IF ~args.ok THEN unchanged(args)
       ELSE IF ~minimize_accepts(sp.val, bounds.val)
       THEN [res |-> Outcome(Raised("ValueError: length of x0 != length of bounds"),
                             <<>>),
             counter |-> Some(0), files |-> files]
       ELSE IF LogError(save_path, Some(0)) # None
       THEN [res |-> Outcome(Raised(LogError(save_path, Some(0))[1]), <<"nloglike">>),
             counter |-> Some(0), files |-> files]
       ELSE [res |-> Outcome(
                 Returned([params |-> [params_type |-> params_type,
                                       len |-> len_params(m, params_type)],
                           optimize_dict |-> [nfev |-> nfev]]),
                 [k \in 1..nfev |-> "nloglike"]
                     \o (IF params_type = "long" THEN <<"long_params">> ELSE <<>>)),
             counter |-> Some(nfev),
             files |-> WriteIterations(files, sp.val, nfev)]

\* the outcome of estimate_params_wa (lines 1318-1374) as fit sees it: the
\* long vector it filled, or the error of one of its steps
estimate_params_wa_outcome(m, succeeds) ==
    IF succeeds
    THEN Outcome(Returned([params |-> [params_type |-> "long",
                                       len |-> len_params(m, "long")],
                           optimize_dict |-> None]),
                 <<"wa_quantities">>)
    ELSE Outcome(Raised("wa estimation error"), <<"wa_quantities">>)

\* a bootstrap that returns a covariance matrix
bootstrap_cov_matrix_implemented(m, params, params_type) ==
    IF Len(params) # len_params(m, params_type)
    THEN Outcome(Raised("AssertionError: invalid length"), <<>>)
    ELSE Outcome(Returned(<<"cov", Len(params), Len(params)>>), <<"cov">>)

\* lines 1417-1425
bootstrap_cov_matrix(m, params, params_type) ==
    IF Len(params) # len_params(m, params_type)
    THEN Outcome(Raised("AssertionError: invalid length"), <<>>)
    ELSE Outcome(Raised("NotImplementedError"), <<>>)

\* self.standard_error_method names the function fit calls (line 1441)
StandardErrorFunctions == CovFunctions \cup {"bootstrap_cov_matrix"}

\* lines 1436-1439: what writing params.json raises, None if it is written
\* or not asked for
SaveParamsError(path, save_params) ==
    IF ~save_params THEN None
    ELSE IF path = "None" THEN Some("TypeError")
    ELSE IF path = "unwritable" THEN Some("OSError")
    ELSE None

\* lines 1428-1434: the estimation fit starts with
fit_estimate(m, stored, given, wa_succeeds, nfev, counter, files) ==
    IF m.estimator = "chs"
    THEN estimate_params_chs(m, stored, given, "long", nfev, counter, files)
    ELSE [res |-> estimate_params_wa_outcome(m, wa_succeeds),
          counter |-> counter, files |-> files]

\* lines 1436-1439: the step that writes params.json, if it is asked for
SavedParams(save_params) == IF save_params THEN <<"params.json">> ELSE <<>>

\* a fit that writes params.json after the covariance matrix is computed
fit_save_after_cov(m, est, save_params, cov_func) ==
    LET with(out, more) == [res |-> Outcome(out, est.res.computed \o more),
                            counter |-> est.counter, files |-> est.files]
    IN IF ~est.res.out.ok THEN est
       ELSE LET params == Vec(est.res.out.val.params.len)
                cov == IF cov_func = "bootstrap_cov_matrix"
                       THEN bootstrap_cov_matrix(m, params, "long")
                       ELSE cov_matrix(cov_func, m, params, "long")
            IN IF ~cov.out.ok THEN with(cov.out, cov.computed)
               ELSE IF SaveParamsError(save_path, save_params) # None
               THEN with(Raised(SaveParamsError(save_path, save_params)[1]),
                         cov.computed)
               ELSE with(Returned([params |-> est.res.out.val.params,
                                   cov |-> cov.out.val,
                                   optimize_dict |-> est.res.out.val.optimize_dict]),
                         cov.computed \o SavedParams(save_params)
                             \o <<"like_res", "skillmodel_res">>)

\* lines 1427-1447, est being what the estimation gave
fit(m, est, save_params, cov_func) ==
    LET with(out, more) == [res |-> Outcome(out, est.res.computed \o more),
                            counter |-> est.counter, files |-> est.files]
    IN IF ~est.res.out.ok THEN est
       ELSE IF SaveParamsError(save_path, save_params) # None
       THEN with(Raised(SaveParamsError(save_path, save_params)[1]), <<>>)
       ELSE LET params == Vec(est.res.out.val.params.len)
                saved == SavedParams(save_params)
                cov == IF cov_func = "bootstrap_cov_matrix"
                       THEN bootstrap_cov_matrix(m, params, "long")
                       ELSE cov_matrix(cov_func, m, params, "long")
            IN IF ~cov.out.ok THEN with(cov.out, saved \o cov.computed)
               ELSE with(Returned([params |-> est.res.out.val.params,
                                   cov |-> cov.out.val,
                                   optimize_dict |-> est.res.out.val.optimize_dict]),
                         saved \o cov.computed \o <<"like_res", "skillmodel_res">>)

\* the lengths of the vectors handed to the entry points
VectorLengths(m) ==
    {len_params(m, "short"), len_params(m, "long"), len_params(m, "long") + 1}

Call(op, params_type, arg, origin, res) ==
    Some([op |-> op, params_type |-> params_type, arg |-> arg, origin |-> origin,
          res |-> res])

OnlyCall == <<model, param_counter, ps_pc, ps_type, ps_slices, ps_allocs, returned,
              start_params, optimize_iteration_counter, opt_results, args_dicts,
              evals, save_path>>

LenParams ==
    /\ ps_pc = 0
    /\ call = None
    /\ \E params_type \in ParamsTypes :
          call' = Call("len_params", params_type, <<>>, <<>>,
                       Outcome(Returned(len_params(model, params_type)), <<>>))
    /\ UNCHANGED OnlyCall
    /\ UNCHANGED NotLayout

ParamNames ==
    /\ ps_pc = 0
    /\ call = None
    /\ \E params_type \in ParamsTypes :
          call' = Call("param_names", params_type, <<>>, <<>>,
                       Outcome(param_names(model, params_type), <<>>))
    /\ UNCHANGED OnlyCall
    /\ UNCHANGED NotLayout

BoundsList ==
    /\ ps_pc = 0
    /\ call = None
    /\ call' = Call("bounds_list", "short", <<>>, <<>>,
                    Outcome(bounds_list(model), <<>>))
    /\ UNCHANGED OnlyCall
    /\ UNCHANGED NotLayout

Expandparams ==
    /\ ps_pc = 0
    /\ call = None
    /\ \E n \in VectorLengths(model) :
          call' = Call("expandparams", "short", Vec(n), <<>>,
                       expandparams(model, Vec(n)))
    /\ UNCHANGED OnlyCall
    /\ UNCHANGED NotLayout

\* reduceparams applied to what expandparams returned
Reduceparams ==
    /\ ps_pc = 0
    /\ call # None
    /\ call[1].op = "expandparams"
    /\ call[1].res.out.ok
    /\ call' = Call("reduceparams", "long", call[1].res.out.val, call[1].arg,
                    Outcome(reduceparams(model, call[1].res.out.val), <<>>))
    /\ UNCHANGED OnlyCall
    /\ UNCHANGED NotLayout

GenerateStartParams ==
    /\ ps_pc = 0
    /\ call = None
    /\ call' = Call("generate_start_params", "short",
                    IF start_params = None THEN <<>> ELSE start_params[1], <<>>,
                    Outcome(generate_start_params(model, start_params), <<>>))
    /\ UNCHANGED OnlyCall
    /\ UNCHANGED NotLayout

CovMatrix ==
    /\ ps_pc = 0
    /\ call = None
    /\ \E func \in CovFunctions, params_type \in ParamsTypes,
          n \in VectorLengths(model) :
          call' = Call(func, params_type, Vec(n), <<>>,
                       cov_matrix(func, model, Vec(n), params_type))
    /\ UNCHANGED OnlyCall
    /\ UNCHANGED NotLayout

\* fit calls estimate_params_chs when the estimator is chs (lines 1428-1430)
EstimateParamsChs ==
    /\ ps_pc = 0
    /\ call = None
    /\ model.estimator = "chs"
    /\ \E given \in {None} \cup {Some(Vec(n)) : n \in VectorLengths(model)},
          params_type \in ParamsTypes, nfev \in NfevChoices :
          LET r == estimate_params_chs(model, start_params, given, params_type,
                                       nfev, optimize_iteration_counter, opt_results)
          IN /\ call' = Call("estimate_params_chs", params_type,
                             IF given = None THEN <<>> ELSE given[1],
                             IF given = None THEN "stored" ELSE "given", r.res)
             /\ optimize_iteration_counter' = r.counter
             /\ opt_results' = r.files
    /\ UNCHANGED <<model, param_counter, ps_pc, ps_type, ps_slices, ps_allocs,
                   returned, start_params, args_dicts, evals, save_path>>
    /\ UNCHANGED NotLayout

\* the caller takes the outcome of the call
CallReturn ==
    /\ call # None
    /\ call' = None
    /\ UNCHANGED OnlyCall
    /\ UNCHANGED NotLayout

\* the queries of the layout
LayoutNext ==
    LenParams \/ ParamNames \/ BoundsList \/ Expandparams \/ Reduceparams \/ CallReturn

LayoutSpecInit == LayoutInit /\ NoEstimation /\ NoKalman /\ NoFunction /\ NoWa

SpecLayout == LayoutSpecInit /\ [][LayoutNext]_vars

\* the models the entry points are called on: those of OptionModels that
\* differ in the estimator, the mixture, the factors and the restrictions of
\* the initial distribution
EntryModels ==
    {m \in OptionModels : /\ m.normalize
                          /\ m.robust_bounds
                          /\ ~m.endog_correction
                          /\ ~m.estimate_X_zeros}

\* the start values a model can be built with
StoredStartParams(m) ==
    {None, Some(Vec(len_params(m, "short"))), Some(Vec(len_params(m, "short") + 1))}

\* the entry points that take a parameter vector
EntryInit ==
    /\ LayoutInit
    /\ model \in EntryModels
    /\ start_params \in StoredStartParams(model)
    /\ optimize_iteration_counter = None
    /\ opt_results = <<>>
    /\ args_dicts = <<>>
    /\ evals = <<>>
    /\ save_path = "writable"
    /\ NoKalman
    /\ NoFunction
    /\ NoWa

EntryNext ==
    Expandparams \/ GenerateStartParams \/ CovMatrix \/ EstimateParamsChs \/ CallReturn

SpecEntry == EntryInit /\ [][EntryNext]_vars

\* the covariance function of the bootstrap, called with a parameter vector
BootstrapCovMatrix ==
    /\ ps_pc = 0
    /\ call = None
    /\ \E params_type \in ParamsTypes, n \in VectorLengths(model) :
          call' = Call("bootstrap_cov_matrix", params_type, Vec(n), <<>>,
                       bootstrap_cov_matrix(model, Vec(n), params_type))
    /\ UNCHANGED OnlyCall
    /\ UNCHANGED NotLayout

\* the start_params argument of fit and the evaluations of minimize, which
\* only the chs branch uses (lines 1428-1430)
FitStartParams(m) ==
    IF m.estimator = "chs"
    THEN {None} \cup {Some(Vec(n)) : n \in VectorLengths(m)}
    ELSE {None}

FitNfevChoices(m) == IF m.estimator = "chs" THEN NfevChoices ELSE {1}

\* whether estimate_params_wa returns, which only the wa branch uses
\* (lines 1432-1434)
WaOutcomes(m) == IF m.estimator = "wa" THEN BOOLEAN ELSE {TRUE}

Fit ==
    /\ ps_pc = 0
    /\ call = None
    /\ \E given \in FitStartParams(model), wa_succeeds \in WaOutcomes(model),
          nfev \in FitNfevChoices(model) :
          \E est \in {fit_estimate(model, start_params, given, wa_succeeds, nfev,
                                    optimize_iteration_counter, opt_results)} :
          \E save_params \in BOOLEAN, cov_func \in StandardErrorFunctions :
          \E r \in {fit(model, est, save_params, cov_func)} :
             /\ call' = Call("fit", "long",
                             IF given = None THEN <<>> ELSE given[1],
                             [standard_error_method |-> cov_func,
                              save_params |-> save_params], r.res)
             /\ optimize_iteration_counter' = r.counter
             /\ opt_results' = r.files
    /\ UNCHANGED <<model, param_counter, ps_pc, ps_type, ps_slices, ps_allocs,
                   returned, start_params, args_dicts, evals, save_path>>
    /\ UNCHANGED NotLayout

\* the models fit is called on: those of EntryModels that differ in the
\* estimator, the mixture and the factors
FitModels == {m \in EntryModels : m.restrict_W_zeros /\ ~m.restrict_P_zeros}

\* the models fit is called on, with every save_path
FitInit ==
    /\ LayoutInit
    /\ model \in FitModels
    /\ start_params \in StoredStartParams(model)
    /\ optimize_iteration_counter = None
    /\ opt_results = <<>>
    /\ args_dicts = <<>>
    /\ evals = <<>>
    /\ save_path \in SavePaths
    /\ NoKalman
    /\ NoFunction
    /\ NoWa

FitNext ==
    Expandparams \/ Reduceparams \/ BootstrapCovMatrix \/ Fit \/ CallReturn

SpecFit == FitInit /\ [][FitNext]_vars

(***************************************************************************)
(* Properties of the methods.                                              *)
(***************************************************************************)
\* the entry points that take a parameter vector of the short length
ShortEntryPoints == {"expandparams", "generate_start_params", "estimate_params_chs"}

\* the vector a call was given: its argument, or the stored start_params
CallVector(c) ==
    IF c.op = "generate_start_params" \/ (c.op = "estimate_params_chs" /\ c.origin = "stored")
    THEN start_params
    ELSE Some(c.arg)

\* the length the entry point of a call requires
RequiredLength(c) ==
    len_params(model, IF c.op \in ShortEntryPoints THEN "short" ELSE c.params_type)

\* the call ended with the error that refuses a vector for its length
LengthRejection(c) ==
    /\ ~c.res.out.ok
    /\ c.res.out.err \in {"AssertionError: invalid length",
                         "ValueError: length of x0 != length of bounds"}

SlotsOf(m, quantity, params_type) ==
    SliceRange(_flatten_slice_list(DictGet(params_slices(m, params_type), quantity)))

\* C7: for every model and params_type param_names returns exactly
\* len_params(params_type) names, and every quantity contributes as many
\* names as its slice has slots.
C7_NamesMatchLayout ==
    (call # None /\ call[1].op = "param_names") =>
        LET c == call[1]
            quants == params_quants(model)
        IN /\ c.res.out.ok
           /\ Len(c.res.out.val) = len_params(model, c.params_type)
           /\ \A i \in 1..Len(quants) :
                 Len(_names_for(quants[i], model, c.params_type))
                     = Cardinality(SlotsOf(model, quants[i], c.params_type))

\* param_names fails exactly for the estimator wa with several mixture
\* elements and unrestricted P_zeros
NamesMismatch(m) == m.estimator = "wa" /\ m.nemf > 1 /\ ~m.restrict_P_zeros

C7_FailsOnlyForWaMixtures ==
    (call # None /\ call[1].op = "param_names") =>
        (call[1].res.out.ok <=> ~NamesMismatch(model))

\* the short slots whose lower bound is the variance bound: those of R, of Q
\* and of the diagonal of every matrix of P_zero
VarianceSlots(m) ==
    LET P == DictGet(params_slices(m, "short"), "P_zero")
        per_matrix == (m.nfac * (m.nfac + 1)) \div 2
        \* the diagonal element i of an upper triangle stored row by row
        diag(i) == i * m.nfac - (i * (i - 1)) \div 2
    IN SlotsOf(m, "R", "short") \cup SlotsOf(m, "Q", "short")
       \cup {P[2] + mat * per_matrix + diag(i) :
                mat \in 0..((SliceLen(P) \div per_matrix) - 1), i \in 0..(m.nfac - 1)}

\* the short slots of the quantities that have no _set_bounds_for_ method
\* and the off-diagonal slots of P_zero
UntouchedSlots(m) ==
    (UNION {SlotsOf(m, q, "short") :
               q \in {params_quants(m)[i] : i \in 1..Len(params_quants(m))}
                        \ {"R", "Q", "trans_coeffs", "X_zero"}})
    \ VarianceSlots(m)

C9_RoundTrip ==
    (call # None /\ call[1].op = "reduceparams") =>
        /\ call[1].res.out.ok
        /\ call[1].res.out.val = call[1].origin

\* reduceparams raises NotImplementedError whatever it is given
C9_ReduceparamsNotImplemented ==
    (call # None /\ call[1].op = "reduceparams") =>
        call[1].res.out = Raised("NotImplementedError")

(***************************************************************************)
(* Likelihood evaluations on one model.  An args dict carries the arrays   *)
(* its likelihood_arguments_dict call allocated (like_vec and the initial  *)
(* quantities, lines 805-827 and 963); an evaluation is handed the arrays  *)
(* of the dict it is called with.  touched is the mutable state an         *)
(* evaluation has read or written so far.                                  *)
(***************************************************************************)
MaxDicts == 2

Evaluations == {1, 2}

Methods == {"nloglike", "loglike", "loglikeobs"}

\* every call hands out the arrays allocated by the first call
FreshArrays_reused(dicts) == 1

\* lines 822, 963 and the _initial_ methods: np.zeros / np.ones allocate new
\* arrays in every call
FreshArrays(dicts) == Len(dicts) + 1

\* the models the evaluations run on
ConcModels == {m \in EntryModels : m.estimator = "chs" /\ m.nemf = 1 /\ m.nfac = 1}

\* the vectors the evaluations are called with
ParamsChoices(m) == {Iterate(Vec(len_params(m, "short")), k) : k \in {0, 1}}

IdleEvaluation == [pc |-> "idle"]

ConcInit ==
    /\ LayoutInit
    /\ model \in ConcModels
    /\ start_params = None
    /\ optimize_iteration_counter \in {None, Some(0)}
    /\ opt_results = <<>>
    /\ args_dicts = <<>>
    /\ evals = [i \in Evaluations |-> IdleEvaluation]
    /\ save_path \in SavePaths
    /\ NoKalman
    /\ NoFunction
    /\ NoWa

OnlyEvals == <<model, param_counter, ps_pc, ps_type, ps_slices, ps_allocs, returned,
               call, start_params, save_path>>

\* lines 958-978
LikelihoodArgumentsDict ==
    /\ Len(args_dicts) < MaxDicts
    /\ likelihood_arguments_dict(model, "short").ok
    /\ args_dicts' = Append(args_dicts,
                            [params_type |-> "short", arrays |-> FreshArrays(args_dicts)])
    /\ UNCHANGED <<optimize_iteration_counter, opt_results, evals>>
    /\ UNCHANGED OnlyEvals
    /\ UNCHANGED NotLayout

\* a caller starts nloglike, loglike or loglikeobs with a vector and a dict
EvalStart(i) ==
    /\ evals[i].pc = "idle"
    /\ \E method \in Methods, params \in ParamsChoices(model),
          args \in 1..Len(args_dicts) :
          evals' = [evals EXCEPT ![i] =
                       [pc |-> IF method = "nloglike" THEN "open" ELSE "likelihood",
                        method |-> method, params |-> params, args |-> args,
                        seen |-> None, touched |-> {}, out |-> None]]
    /\ UNCHANGED <<optimize_iteration_counter, opt_results, args_dicts>>
    /\ UNCHANGED OnlyEvals
    /\ UNCHANGED NotLayout

\* lines 984-986: the path is formatted with the counter and the file written
NloglikeOpen(i) ==
    /\ evals[i].pc = "open"
    /\ IF LogError(save_path, optimize_iteration_counter) # None
       THEN /\ evals' = [evals EXCEPT
                  ![i].pc = "done",
                  ![i].out = Some(Raised(LogError(save_path,
                                                  optimize_iteration_counter)[1])),
                  ![i].touched = @ \cup (IF save_path = "None" THEN {}
                                         ELSE {<<"counter", 0>>})]
            /\ UNCHANGED opt_results
       ELSE /\ opt_results' = WriteIterationFile(opt_results,
                                  optimize_iteration_counter[1], evals[i].params)
            /\ evals' = [evals EXCEPT
                  ![i].pc = "increment",
                  ![i].touched = @ \cup {<<"counter", 0>>,
                                         <<"file", optimize_iteration_counter[1]>>}]
    /\ UNCHANGED <<optimize_iteration_counter, args_dicts>>
    /\ UNCHANGED OnlyEvals
    /\ UNCHANGED NotLayout

\* line 987, the read of self.optimize_iteration_counter += 1
NloglikeIncrementRead(i) ==
    /\ evals[i].pc = "increment"
    /\ evals' = [evals EXCEPT ![i].pc = "store",
                              ![i].seen = optimize_iteration_counter]
    /\ UNCHANGED <<optimize_iteration_counter, opt_results, args_dicts>>
    /\ UNCHANGED OnlyEvals
    /\ UNCHANGED NotLayout

\* line 987, the store of self.optimize_iteration_counter += 1
NloglikeIncrementStore(i) ==
    /\ evals[i].pc = "store"
    /\ optimize_iteration_counter' = Some(evals[i].seen[1] + 1)
    /\ evals' = [evals EXCEPT ![i].pc = "likelihood"]
    /\ UNCHANGED <<opt_results, args_dicts>>
    /\ UNCHANGED OnlyEvals
    /\ UNCHANGED NotLayout

\* lines 988, 991, 994: log_likelihood_per_individual(params, **args) is
\* handed the arrays of the dict
Likelihood(i) ==
    /\ evals[i].pc = "likelihood"
    /\ evals' = [evals EXCEPT
          ![i].pc = "done",
          ![i].touched = @ \cup {<<"arrays", args_dicts[evals[i].args].arrays>>},
          ![i].out = Some(Returned([method |-> evals[i].method,
                                    params |-> evals[i].params]))]
    /\ UNCHANGED <<optimize_iteration_counter, opt_results, args_dicts>>
    /\ UNCHANGED OnlyEvals
    /\ UNCHANGED NotLayout

ConcNext ==
    \/ LikelihoodArgumentsDict
    \/ \E i \in Evaluations :
          \/ EvalStart(i)
          \/ NloglikeOpen(i)
          \/ NloglikeIncrementRead(i)
          \/ NloglikeIncrementStore(i)
          \/ Likelihood(i)

SpecConc == ConcInit /\ [][ConcNext]_vars

(***************************************************************************)
(* Properties of the likelihood evaluations.                               *)
(***************************************************************************)
Started(i) == evals[i].pc # "idle"

Finished(i) == evals[i].pc = "done"

\* the evaluation returned a value
Completed(i) == Finished(i) /\ evals[i].out[1].ok

BothNloglike(i, j) == evals[i].method = "nloglike" /\ evals[j].method = "nloglike"

\* the two evaluations were given the dicts of separate
\* likelihood_arguments_dict calls
SeparateDicts(i, j) == evals[i].args # evals[j].args

C11_LoggingIsSideObserver ==
    \A i \in Evaluations :
        (Finished(i) /\ evals[i].method = "nloglike"
             /\ optimize_iteration_counter # None)
            => evals[i].out[1].ok

\* nloglike returns a value exactly if the iteration file could be opened
C11_ReturnsOnlyIfLogged ==
    \A i \in Evaluations :
        (Finished(i) /\ evals[i].method = "nloglike") =>
            (evals[i].out[1].ok <=>
                (save_path = "writable" /\ optimize_iteration_counter # None))

\* C12: the unimplemented paths never return a value: bootstrap_cov_matrix
\* raises an AssertionError for a vector whose length differs from len_params
\* of the params type and NotImplementedError for every other vector,
\* reduceparams raises NotImplementedError for every vector, and fit with the
\* standard error method bootstrap never returns a results object.
C12_UnimplementedPathsFail ==
    call # None =>
        LET c == call[1]
        IN /\ c.op = "bootstrap_cov_matrix" =>
                  /\ ~c.res.out.ok
                  /\ c.res.out.err =
                         IF Len(c.arg) = len_params(model, c.params_type)
                         THEN "NotImplementedError"
                         ELSE "AssertionError: invalid length"
           /\ c.op = "reduceparams" =>
                  (~c.res.out.ok /\ c.res.out.err = "NotImplementedError")
           /\ (c.op = "fit" /\ c.origin.standard_error_method = "bootstrap_cov_matrix")
                  => ~c.res.out.ok

\* fit has estimated the parameters, reached the bootstrap and failed there
C12_Witness ==
    /\ call # None
    /\ call[1].op = "fit"
    /\ call[1].origin.standard_error_method = "bootstrap_cov_matrix"
    /\ ~call[1].res.out.ok
    /\ call[1].res.out.err = "NotImplementedError"
    /\ optimize_iteration_counter = Some(2)

\* bootstrap_cov_matrix raises NotImplementedError for every params and
\* params_type
C12_AlwaysNotImplemented ==
    (call # None /\ call[1].op = "bootstrap_cov_matrix") =>
        (~call[1].res.out.ok /\ call[1].res.out.err = "NotImplementedError")

(***************************************************************************)
(* sigma_weights and sigma_scaling_factor.  The numbers are exact          *)
(* fractions; a division by zero is what Python raises for it.             *)
(***************************************************************************)
RECURSIVE Gcd(_, _)
Gcd(a, b) == IF b = 0 THEN a ELSE Gcd(b, a % b)

\* the fraction n/d in lowest terms with a positive denominator, d # 0
Frac(n, d) ==
    LET g == Gcd(Abs(n), Abs(d))
        sgn == IF d < 0 THEN -1 ELSE 1
    IN <<"frac", (sgn * n) \div g, (sgn * d) \div g>>

FracAdd(a, b) == Frac(a[2] * b[3] + b[2] * a[3], a[3] * b[3])

RECURSIVE FracSum(_)
FracSum(seq) ==
    IF seq = <<>> THEN Frac(0, 1)
    ELSE FracAdd(seq[1], FracSum(Tail(seq)))

\* self.kappa, which the model specification supplies
MaxKappa == 2

KappaChoices == (0 - MaxKappa)..MaxKappa

\* lines 794-799: s_weights_c is the array s_weights_m itself
sigma_weights(nfac, kappa) ==
    IF nfac + kappa = 0 THEN Raised("ZeroDivisionError")
    ELSE LET nsigma == 2 * nfac + 1
             s_weights_m == [i \in 1..nsigma |->
                                IF i = 1 THEN Frac(kappa, nfac + kappa)
                                ELSE Frac(1, 2 * (nfac + kappa))]
         IN Returned([s_weights_m |-> s_weights_m, s_weights_c |-> s_weights_m])

\* lines 801-803: the square root is kept as the number it is taken of; that
\* of a negative number is nan
sigma_scaling_factor(nfac, kappa) ==
    IF kappa + nfac < 0 THEN Returned(<<"nan">>)
    ELSE Returned(<<"sqrt", kappa + nfac>>)

FunctionResult(op, out) == Some([op |-> op, out |-> out])

OnlyFunction == <<kvars, lvars, evars, fargs, wvars>>

SigmaWeights ==
    /\ fres = None
    /\ fres' = FunctionResult("sigma_weights",
                              sigma_weights(model.nfac, fargs[1].kappa))
    /\ UNCHANGED OnlyFunction

SigmaScalingFactor ==
    /\ fres = None
    /\ fres' = FunctionResult("sigma_scaling_factor",
                              sigma_scaling_factor(model.nfac, fargs[1].kappa))
    /\ UNCHANGED OnlyFunction

SigmaInit ==
    /\ LayoutInit
    /\ NoEstimation
    /\ NoKalman
    /\ fargs \in {Some([kappa |-> kappa]) : kappa \in KappaChoices}
    /\ fres = None
    /\ NoWa

SigmaNext == SigmaWeights \/ SigmaScalingFactor

SpecSigma == SigmaInit /\ [][SigmaNext]_vars

\* the weights sigma_weights returned in the current state
SigmaWeightsReturned ==
    /\ fres # None
    /\ fres[1].op = "sigma_weights"
    /\ fres[1].out.ok

\* the entries of the two vectors, their lengths and their sums, for every
\* kappa with nfac + kappa # 0
SigmaWeightsValues ==
    SigmaWeightsReturned =>
        LET nfac == model.nfac
            kappa == fargs[1].kappa
            w == fres[1].out.val
        IN /\ Len(w.s_weights_m) = 2 * nfac + 1
           /\ w.s_weights_c = w.s_weights_m
           /\ w.s_weights_m[1] = Frac(kappa, nfac + kappa)
           /\ \A i \in 2..(2 * nfac + 1) :
                  w.s_weights_m[i] = Frac(1, 2 * (nfac + kappa))
           /\ FracSum(w.s_weights_m) = Frac(1, 1)

\* every weight is non-negative
SigmaWeightsNonNegative ==
    SigmaWeightsReturned =>
        \A i \in 1..Len(fres[1].out.val.s_weights_m) :
            fres[1].out.val.s_weights_m[i][2] >= 0

\* sigma_scaling_factor is sqrt(nfac + kappa)
SigmaScalingFactorValue ==
    (fres # None /\ fres[1].op = "sigma_scaling_factor") =>
        /\ fres[1].out.ok
        /\ fres[1].out.val = <<"sqrt", model.nfac + fargs[1].kappa>>

\* C13: sigma_weights returns two identical vectors of length 2*nfac+1 with
\* entry 0 equal to kappa/(nfac+kappa) and every other entry equal to
\* 1/(2*(nfac+kappa)), all entries non-negative and summing to 1, and
\* sigma_scaling_factor returns sqrt(nfac+kappa).
C13_SigmaWeights ==
    /\ fres # None => fres[1].out.ok
    /\ SigmaWeightsValues
    /\ SigmaWeightsNonNegative
    /\ SigmaScalingFactorValue

\* the same for every kappa that is not negative
C13_ForNonNegativeKappa == fargs[1].kappa >= 0 => C13_SigmaWeights

(***************************************************************************)
(* soft_clipping as a function of its arguments.                           *)
(***************************************************************************)
MaxClipRows == 2

MaxClipCols == 2

MaxHardness == 2

\* the cells of the arrays (hundredths), below, between and above the bounds
ClipCells == <<-900, 0, 900, -350, 120, 250, -300, 200>>

\* the array of a shape whose cells run through ClipCells from start in steps
ClipArray(nrows, ncols, start, step) ==
    [r \in 1..nrows |-> [c \in 1..ncols |->
        ClipCells[((start + ((r - 1) * ncols + (c - 1)) * step) % Len(ClipCells)) + 1]]]

ClipArrays ==
    {ClipArray(nrows, ncols, start, step) :
        nrows \in 1..MaxClipRows, ncols \in 1..MaxClipCols,
        start \in 0..(Len(ClipCells) - 1), step \in 1..2}

\* lower and upper: absent, or finite with lower <= upper
ClipBoundPairs ==
    {b \in (ClipLowerChoices \cup {Some(200)}) \X (ClipUpperChoices \cup {Some(-300)}) :
        (b[1] # None /\ b[2] # None) => b[1][1] <= b[2][1]}

ClipArguments ==
    {[arr |-> arr, lower |-> b[1], upper |-> b[2],
      lower_hardness |-> lh, upper_hardness |-> uh] :
        arr \in ClipArrays, b \in ClipBoundPairs,
        lh \in 1..MaxHardness, uh \in 1..MaxHardness}

SoftClipping ==
    /\ fres = None
    /\ fres' = FunctionResult("soft_clipping",
                   Returned(soft_clipping(fargs[1].arr, fargs[1].lower, fargs[1].upper,
                                          fargs[1].lower_hardness,
                                          fargs[1].upper_hardness)))
    /\ UNCHANGED OnlyFunction

ClipInit ==
    /\ NoModel
    /\ NoKalman
    /\ fargs \in {Some(a) : a \in ClipArguments}
    /\ fres = None
    /\ NoWa

ClipNext == SoftClipping

SpecClip == ClipInit /\ [][ClipNext]_vars

\* the distance a soft maximum of the hardness can lie from the maximum:
\* log(2) / hardness, rounded up
ClipEps(hardness) == (Log1pExpTable[1] \div hardness) + 1

\* soft_clipping has returned for finite bounds
ClippedWithBounds ==
    /\ fres # None
    /\ fres[1].op = "soft_clipping"
    /\ fargs[1].lower # None
    /\ fargs[1].upper # None

\* C14: for finite bounds lower <= upper and positive hardness every element
\* of soft_clipping(arr, lower, upper) lies in (lower - eps, upper + eps) with
\* eps = log(2) / hardness, the result is non-decreasing in the input element,
\* and the output has the shape of the input.
C14_SoftClipping ==
    ClippedWithBounds =>
        LET a == fargs[1]
            out == fres[1].out.val
            flat_in == Flatten(a.arr)
            flat_out == Flatten(out)
            eps == Max(ClipEps(a.lower_hardness), ClipEps(a.upper_hardness))
        IN /\ Shape(out) = Shape(a.arr)
           /\ \A r \in 1..Len(out) : Len(out[r]) = Len(a.arr[r])
           /\ \A i \in 1..Len(flat_out) :
                  /\ a.lower[1] - eps < flat_out[i]
                  /\ flat_out[i] < a.upper[1] + eps
           /\ \A i, j \in 1..Len(flat_in) :
                  flat_in[i] <= flat_in[j] => flat_out[i] <= flat_out[j]

\* a 2 x 2 array with a cell far below lower and a cell far above upper has
\* been clipped at the highest hardness: both cells came out within eps of
\* the bound, a cell between the bounds came out changed by less than eps
C14_Witness ==
    /\ ClippedWithBounds
    /\ Shape(fargs[1].arr) = <<2, 2>>
    /\ fargs[1].lower_hardness = MaxHardness
    /\ fargs[1].upper_hardness = MaxHardness
    /\ fargs[1].lower[1] < fargs[1].upper[1]
    /\ LET flat_in == Flatten(fargs[1].arr)
           flat_out == Flatten(fres[1].out.val)
           eps == ClipEps(MaxHardness)
       IN /\ \E i \in 1..4 : /\ flat_in[i] < fargs[1].lower[1] - 100
                             /\ Abs(flat_out[i] - fargs[1].lower[1]) < eps
          /\ \E i \in 1..4 : /\ flat_in[i] > fargs[1].upper[1] + 100
                             /\ Abs(flat_out[i] - fargs[1].upper[1]) < eps
          /\ \E i \in 1..4 : /\ flat_in[i] > fargs[1].lower[1]
                             /\ flat_in[i] < fargs[1].upper[1]
                             /\ Abs(flat_out[i] - flat_in[i]) < eps

(***************************************************************************)
(* Missing measurements in _log_likelihood_jax.                            *)
(***************************************************************************)
\* the update k has just run
UpdateRan(kk) == Len(measurements) = kk /\ Len(measurements') = kk + 1

\* C15: in an update an individual whose measurement is NaN gets the log
\* likelihood 0 in the row of that update and keeps its state, its Cholesky
\* factor and its mixture weights; the other individuals of the batch get the
\* weights of the update and, in an update for a measurement, its state and
\* Cholesky factor.
C15_MissingMeasurement ==
    [][\A kk \in 0..(n_updates(kin) - 1) :
         UpdateRan(kk) =>
            \A i \in Individuals :
               IF measurements'[kk + 1][i] = NaN
               THEN /\ loglikes'[kk + 1][i] = 0
                    /\ states'[i] = states[i]
                    /\ upper_chols'[i] = upper_chols[i]
                    /\ log_mixture_weights'[i] = log_mixture_weights[i]
               ELSE /\ log_mixture_weights'[i] =
                           Append(log_mixture_weights[i], <<"update", kk>>)
                    /\ purpose(kin, period_t, meas_j) = "measurement" =>
                          /\ states'[i] = Append(states[i], <<"update", kk>>)
                          /\ upper_chols'[i] = Append(upper_chols[i], <<"update", kk>>)
                    /\ purpose(kin, period_t, meas_j) # "measurement" =>
                          /\ states'[i] = states[i]
                          /\ upper_chols'[i] = upper_chols[i]]_vars

\* an update for a measurement has run in which one individual lacked the
\* measurement and another had it: the first has no step of that update in
\* its state, the second has
C15_Witness ==
    \E kk \in 1..Len(measurements) : \E i, j \in Individuals :
        /\ measurements[kk][i] = NaN
        /\ measurements[kk][j] # NaN
        /\ loglikes[kk][i] = 0
        /\ loglikes[kk][j] # 0
        /\ \A n \in 1..Len(states[i]) : states[i][n] # <<"update", kk - 1>>
        /\ \E n \in 1..Len(states[j]) : states[j][n] = <<"update", kk - 1>>
        /\ \E n \in 1..Len(states[i]) : states[i][n][1] = "update"

(***************************************************************************)
(* loadings_from_covs (estimation/wa_functions.py).  The measurements of   *)
(* the factor are 1..nmeas; the data are those of a one-factor model with  *)
(* the loadings loads and the factor variance v, so that data.cov() is     *)
(* loads[a] * loads[b] * v off the diagonal.                               *)
(***************************************************************************)
MaxWaMeas == 4

LoadingChoices == {1, 2, -3}

FactorVariances == {1, 2}

LoadingsArguments ==
    UNION {{[loads |-> loads, v |-> v, load_norm |-> n, load_norm_val |-> val] :
               loads \in [1..nmeas -> LoadingChoices], v \in FactorVariances,
               n \in 1..nmeas, val \in LoadingChoices} : nmeas \in 1..MaxWaMeas}

\* data.cov().loc[a, b] for a # b
CovLoc(data, a, b) == data.loads[a] * data.loads[b] * data.v

\* np.mean of a list of fractions that is not empty
FracMean(estimates) ==
    LET total == FracSum(estimates)
    IN Frac(total[2], total[3] * Len(estimates))

\* the sequence of the elements of a set of numbers, ascending
RECURSIVE Ascending(_)
Ascending(S) ==
    IF S = {} THEN <<>>
    ELSE LET least == CHOOSE x \in S : \A y \in S : x <= y
         IN <<least>> \o Ascending(S \ {least})

\* lines 32-40: the column loadings of period 0 after the loop; the mean of
\* an empty list is nan
LoadingsWritten(data, storage) ==
    LET measurements_ == 1..Len(data.loads)
        estimates(m) ==
            LET others == Ascending(measurements_ \ {m, data.load_norm})
            IN [i \in 1..Len(others) |->
                   Frac(CovLoc(data, m, others[i]),
                        data.load_norm_val * CovLoc(data, data.load_norm, others[i]))]
    IN [m \in measurements_ |->
           IF m = data.load_norm THEN storage[m]
           ELSE IF estimates(m) = <<>> THEN Some(<<"nan", 0, 0>>)
           ELSE Some(FracMean(estimates(m)))]

\* the number of measurements is examined after the loop
loadings_from_covs_late_assert(data, storage) ==
    [out |-> IF Len(data.loads) >= 3 THEN Returned(None) ELSE Raised("AssertionError"),
     storage_df |-> LoadingsWritten(data, storage)]

\* lines 6-40
loadings_from_covs(data, storage) ==
    IF ~(Len(data.loads) >= 3)
    THEN [out |-> Raised("AssertionError"), storage_df |-> storage]
    ELSE [out |-> Returned(None), storage_df |-> LoadingsWritten(data, storage)]

\* the column loadings of period 0 before the call: the normalized loading
\* is filled in, the others are not
InitialLoadings(data) ==
    [m \in 1..Len(data.loads) |->
        IF m = data.load_norm THEN Some(Frac(data.load_norm_val, 1)) ELSE None]

LoadingsFromCovs ==
    /\ fres = None
    /\ \E r \in {loadings_from_covs(fargs[1], storage_df)} :
          /\ fres' = FunctionResult("loadings_from_covs", r.out)
          /\ storage_df' = r.storage_df
    /\ UNCHANGED <<kvars, lvars, evars, fargs, wa_pc, wa_t, wa_f, wa_trace>>

LoadingsInit ==
    /\ NoModel
    /\ NoKalman
    /\ fargs \in {Some(a) : a \in LoadingsArguments}
    /\ fres = None
    /\ storage_df = InitialLoadings(fargs[1])
    /\ wa_pc = "idle"
    /\ wa_t = 0
    /\ wa_f = 0
    /\ wa_trace = <<>>

LoadingsNext == LoadingsFromCovs

SpecLoadings == LoadingsInit /\ [][LoadingsNext]_vars

\* C16: loadings_from_covs fails with an error whenever the factor has fewer
\* than 3 measurements, storage_df is then as it was before the call, and
\* with 3 or more measurements no error is raised.
C16_UnderidentifiedFails ==
    fres # None =>
        IF Len(fargs[1].loads) < 3
        THEN /\ ~fres[1].out.ok
             /\ storage_df = InitialLoadings(fargs[1])
        ELSE fres[1].out.ok

\* the call has failed for a factor with exactly 2 measurements
C16_Witness ==
    /\ fres # None
    /\ Len(fargs[1].loads) = 2
    /\ ~fres[1].out.ok
    /\ fres[1].out.err = "AssertionError"

\* the normalization pins the normalized measurement to its true loading
TrueNormalization(data) == data.load_norm_val = data.loads[data.load_norm]

\* C17: for exact one-factor covariances and a normalization that pins
\* measurement n to its true loading, whatever its value,
\* loadings_from_covs stores the true loading of every measurement m # n
\* and writes no loading for n.
C17_TrueLoadingsStored ==
    (fres # None /\ fres[1].out.ok /\ TrueNormalization(fargs[1])) =>
        \A m \in 1..Len(fargs[1].loads) :
            IF m = fargs[1].load_norm
            THEN storage_df[m] = InitialLoadings(fargs[1])[m]
            ELSE storage_df[m] = Some(Frac(fargs[1].loads[m], 1))

\* what is stored for m # n is load_m / load_n^2, the true loading only for
\* a normalization to 1 or -1; nothing is written for n
C17_StoredLoadings ==
    (fres # None /\ fres[1].out.ok /\ TrueNormalization(fargs[1])) =>
        \A m \in 1..Len(fargs[1].loads) :
            IF m = fargs[1].load_norm
            THEN storage_df[m] = InitialLoadings(fargs[1])[m]
            ELSE storage_df[m] =
                     Some(Frac(fargs[1].loads[m],
                               fargs[1].load_norm_val * fargs[1].load_norm_val))

(***************************************************************************)
(* _calculate_wa_quantities.  The factors are 0..nfac-1, the periods       *)
(* 0..nperiods-1; the numbers the steps compute are left out, the steps    *)
(* and the cells of storage_df they write are kept.                        *)
(***************************************************************************)
\* the models the WA estimator runs on
WaModels ==
    {[m EXCEPT !.estimator = "wa"] :
        m \in {sm \in ShapeModels :
                  /\ sm.nmeas = 1
                  /\ \A s \in 1..sm.nstages, f \in 1..sm.nfac :
                         sm.new_trans_coeffs[s][f] # 0}}

\* the IV step runs for every factor
IvStepRuns_always(m, f) == TRUE

\* lines 1271-1272: if trans_name != 'constant'
IvStepRuns(m, f) == m.transition_names[f + 1] # "constant"

\* line 1263: self.periods[:-1]
IvPeriods(m) == 0..(m.nperiods - 2)

WaFrame == <<kvars, lvars, evars, fvars>>

\* lines 1245-1259: initial_meas_coeffs and the update of storage_df with the
\* measurement coefficients of period 0
WaInitialMeasCoeffs ==
    /\ wa_pc = "start"
    /\ storage_df' = storage_df \cup {<<0, "meas_coeffs", f>> : f \in 0..(model.nfac - 1)}
    /\ wa_trace' = Append(wa_trace, <<"initial_meas_coeffs", 0, 0>>)
    /\ wa_t' = 0
    /\ wa_f' = 0
    /\ wa_pc' = IF IvPeriods(model) # {} THEN "residual_measurements"
                ELSE "meas_error_variances"
    /\ UNCHANGED WaFrame

\* lines 1265-1268: residual_measurements(period=t), which reads the loadings
\* and intercepts of period t from storage_df, and the data of the IV
\* equations
WaResidualMeasurements ==
    /\ wa_pc = "residual_measurements"
    /\ wa_trace' = Append(wa_trace, <<"residual_measurements", wa_t, 0>>)
    /\ wa_f' = 0
    /\ wa_pc' = "factor"
    /\ UNCHANGED <<storage_df, wa_t>>
    /\ UNCHANGED WaFrame

\* lines 1270-1298: one pass of the loop over the factors
WaFactor ==
    /\ wa_pc = "factor"
    /\ IF IvStepRuns(model, wa_f)
       THEN /\ wa_trace' = wa_trace \o << <<"iv", wa_t, wa_f>>,
                                          <<"store", wa_t + 1, wa_f>> >>
            /\ storage_df' = storage_df \cup {<<wa_t + 1, "meas_coeffs", wa_f>>}
       ELSE UNCHANGED <<wa_trace, storage_df>>
    /\ IF wa_f + 1 < model.nfac
       THEN /\ wa_f' = wa_f + 1
            /\ UNCHANGED <<wa_t, wa_pc>>
       ELSE /\ wa_f' = 0
            /\ IF wa_t + 1 \in IvPeriods(model)
               THEN /\ wa_t' = wa_t + 1
                    /\ wa_pc' = "residual_measurements"
               ELSE /\ wa_t' = 0
                    /\ wa_pc' = "meas_error_variances"
    /\ UNCHANGED WaFrame

\* lines 1302-1312: one pass of the loop over all periods
WaMeasErrorVariances ==
    /\ wa_pc = "meas_error_variances"
    /\ wa_trace' = Append(wa_trace, <<"meas_error_variances", wa_t, 0>>)
    /\ storage_df' = storage_df \cup {<<wa_t, "meas_error_variances", 0>>}
    /\ IF wa_t + 1 < model.nperiods
       THEN /\ wa_t' = wa_t + 1
            /\ UNCHANGED wa_pc
       ELSE /\ wa_pc' = "done"
            /\ UNCHANGED wa_t
    /\ UNCHANGED wa_f
    /\ UNCHANGED WaFrame

WaInit ==
    /\ model \in WaModels
    /\ param_counter = None
    /\ ps_pc = 0
    /\ ps_type = None
    /\ ps_slices = <<>>
    /\ ps_allocs = <<>>
    /\ returned = None
    /\ call = None
    /\ NoEstimation
    /\ NoKalman
    /\ NoFunction
    /\ storage_df = {}
    /\ wa_pc = "start"
    /\ wa_t = 0
    /\ wa_f = 0
    /\ wa_trace = <<>>

WaNext ==
    WaInitialMeasCoeffs \/ WaResidualMeasurements \/ WaFactor \/ WaMeasErrorVariances

SpecWa == WaInit /\ [][WaNext]_vars

\* the positions of a step in the trace
Positions(step) == {i \in 1..Len(wa_trace) : wa_trace[i] = step}

Steps(kind) == {wa_trace[i] : i \in {j \in 1..Len(wa_trace) : wa_trace[j][1] = kind}}

\* the pairs (t, factor) the IV step has to run for
IvPairs ==
    {tf \in (0..(model.nperiods - 2)) \X (0..(model.nfac - 1)) :
        model.transition_names[tf[2] + 1] # "constant"}

\* C18: the IV step runs exactly once for every pair (t, factor) with t in
\* the periods 0..second-to-last and factor non-constant, in ascending order
\* of the periods, and never for a constant factor or the last period; the
\* measurement coefficients of period t + 1 are stored in iteration t before
\* the residual measurements of period t + 1 are formed; the measurement
\* error variances are computed afterwards for every period, the last one
\* included.
C18_IvSteps ==
    /\ \A i \in 1..Len(wa_trace) :
          wa_trace[i][1] = "iv" =>
             /\ <<wa_trace[i][2], wa_trace[i][3]>> \in IvPairs
             /\ Positions(wa_trace[i]) = {i}
             /\ \A j \in 1..(i - 1) :
                   wa_trace[j][1] = "iv" =>
                      \/ wa_trace[j][2] < wa_trace[i][2]
                      \/ /\ wa_trace[j][2] = wa_trace[i][2]
                         /\ wa_trace[j][3] < wa_trace[i][3]
    /\ \A i \in 1..Len(wa_trace) :
          (wa_trace[i][1] = "residual_measurements" /\ wa_trace[i][2] > 0) =>
             \A f \in 0..(model.nfac - 1) :
                <<wa_trace[i][2] - 1, f>> \in IvPairs =>
                   /\ \E j \in 1..(i - 1) : wa_trace[j] = <<"store", wa_trace[i][2], f>>
                   /\ <<wa_trace[i][2], "meas_coeffs", f>> \in storage_df
    /\ \A i \in 1..Len(wa_trace) :
          wa_trace[i][1] = "meas_error_variances" =>
             {<<s[2], s[3]>> : s \in Steps("iv")} = IvPairs
    /\ wa_pc = "done" =>
          /\ {<<s[2], s[3]>> : s \in Steps("iv")} = IvPairs
          /\ {s[2] : s \in Steps("meas_error_variances")} = 0..(model.nperiods - 1)
          /\ {s[2] : s \in Steps("residual_measurements")} = 0..(model.nperiods - 2)

\* the estimator has run to its end on a model with three periods, a
\* constant factor and another one
C18_Witness ==
    /\ wa_pc = "done"
    /\ model.nperiods >= 3
    /\ \E f \in 1..model.nfac : model.transition_names[f] = "constant"
    /\ Cardinality(Steps("iv")) >= 2
    /\ <<"meas_error_variances", model.nperiods - 1, 0>> \in Steps("meas_error_variances")

(***************************************************************************)
(* variable_permutations_for_iv_equations.  A variable name is the record  *)
(* of the name of the measurement and the suffixes it carries.             *)
(***************************************************************************)
\* the names of the measurements; a measurement can measure several factors
IvMeasurementNames == {1, 2, 3}

\* the lists self.measurements[inc][period] can be: names in ascending order
IvMeasurementLists == {Ascending(S) : S \in (SUBSET IvMeasurementNames) \ {{}}}

\* the included factors of the factor: the transition of each and its
\* measurements in the period and in period 0
IvArguments ==
    UNION {{[period |-> period, included |-> inc] :
               period \in {0, 1},
               inc \in [1..n -> [trans_name : {"linear", "constant"},
                                 measurements : IvMeasurementLists]]} :
           n \in 1..MaxNfac}

VariableName(m, copied, suffix) == [name |-> m, copied |-> copied, suffix |-> suffix]

\* lines 1042-1057, the measurements of a constant factor being those of
\* period 0
all_variables_for_iv_equations(a, suffix) ==
    [i \in 1..Len(a.included) |->
        LET inc == a.included[i]
            copied == inc.trans_name = "constant" /\ a.period > 0
        IN [k \in 1..Len(inc.measurements) |->
               VariableName(inc.measurements[k], copied, suffix)]]

\* itertools.product(*lists) as a list of lists
RECURSIVE Product(_)
Product(lists) ==
    IF lists = <<>> THEN << <<>> >>
    ELSE LET rest == Product(Tail(lists))
             first == Head(lists)
         IN [n \in 1..(Len(first) * Len(rest)) |->
                <<first[((n - 1) \div Len(rest)) + 1]>> \o rest[((n - 1) % Len(rest)) + 1]]

InList(x, list) == \E i \in 1..Len(list) : list[i] = x

\* the elements of a list that are not in x, in their order
RECURSIVE NotIn(_, _)
NotIn(list, x) ==
    IF list = <<>> THEN <<>>
    ELSE (IF InList(Head(list), x) THEN <<>> ELSE <<Head(list)>>) \o NotIn(Tail(list), x)

\* m[:-6]
StripResid(m) == [m EXCEPT !.suffix = ""]

\* every measurement of the factor is an instrument
InstrumentsOf_all(sublist, x) == [i \in 1..Len(sublist) |-> StripResid(sublist[i])]

\* line 1099: [m[:-6] for m in sublist if m not in x]
InstrumentsOf(sublist, x) ==
    LET kept == NotIn(sublist, x)
    IN [i \in 1..Len(kept) |-> StripResid(kept[i])]

\* lines 1090-1102
variable_permutations_for_iv_equations(a) ==
    LET all_variables_for_indepvars == all_variables_for_iv_equations(a, "resid")
        indepvar_permutations == Product(all_variables_for_indepvars)
    IN [indepvar_permutations |-> indepvar_permutations,
        instrument_permutations |->
            [n \in 1..Len(indepvar_permutations) |->
                [i \in 1..Len(all_variables_for_indepvars) |->
                    InstrumentsOf(all_variables_for_indepvars[i],
                                  indepvar_permutations[n])]]]

VariablePermutationsForIvEquations ==
    /\ fres = None
    /\ fres' = FunctionResult("variable_permutations_for_iv_equations",
                              Returned(variable_permutations_for_iv_equations(fargs[1])))
    /\ UNCHANGED OnlyFunction

IvInit ==
    /\ NoModel
    /\ NoKalman
    /\ NoWa
    /\ fargs \in {Some(a) : a \in IvArguments}
    /\ fres = None

IvNext == VariablePermutationsForIvEquations

SpecIv == IvInit /\ [][IvNext]_vars

RECURSIVE ProductOfLengths(_)
ProductOfLengths(lists) ==
    IF lists = <<>> THEN 1 ELSE Len(Head(lists)) * ProductOfLengths(Tail(lists))

Range(list) == {list[i] : i \in 1..Len(list)}

\* C19: there is one regressor list for every element of the Cartesian
\* product of the measurement lists of the included factors, each with one
\* residual measurement per included factor; the instrument list of a
\* regressor list holds, per included factor, exactly the measurements of
\* that factor that are not used as a regressor in it, so that no
\* measurement is regressor and instrument of one equation.
C19_Permutations ==
    fres # None =>
        LET a == fargs[1]
            nfactors == Len(a.included)
            x_list == fres[1].out.val.indepvar_permutations
            z_list == fres[1].out.val.instrument_permutations
            resid(i) == Range(all_variables_for_iv_equations(a, "resid")[i])
            plain(i) == Range(all_variables_for_iv_equations(a, "")[i])
        IN /\ Len(x_list) = ProductOfLengths([i \in 1..nfactors |->
                                                 a.included[i].measurements])
           /\ Range(x_list) = {x \in [1..nfactors -> UNION {resid(i) : i \in 1..nfactors}] :
                                  \A i \in 1..nfactors : x[i] \in resid(i)}
           /\ Cardinality(Range(x_list)) = Len(x_list)
           /\ Len(z_list) = Len(x_list)
           /\ \A n \in 1..Len(x_list) :
                 /\ Len(z_list[n]) = nfactors
                 /\ \A i \in 1..nfactors :
                       /\ Range(z_list[n][i]) =
                              {m \in plain(i) :
                                  [m EXCEPT !.suffix = "resid"] \notin Range(x_list[n])}
                       /\ Cardinality(Range(z_list[n][i])) = Len(z_list[n][i])
                       /\ \A m \in Range(z_list[n][i]), j \in 1..nfactors :
                             StripResid(x_list[n][j]) # m

\* the permutations of two included factors with at least two measurements
\* each and a measurement in common
C19_Witness ==
    /\ fres # None
    /\ fargs[1].period > 0
    /\ Len(fargs[1].included) = 2
    /\ fargs[1].included[1].trans_name = "linear"
    /\ fargs[1].included[2].trans_name = "linear"
    /\ Len(fargs[1].included[1].measurements) >= 2
    /\ Len(fargs[1].included[2].measurements) >= 2
    /\ Range(fargs[1].included[1].measurements)
           \cap Range(fargs[1].included[2].measurements) # {}
    /\ Len(fres[1].out.val.indepvar_permutations) >= 4

(***************************************************************************)
(* estimate_params_wa: the transition variances written to the Q slice.    *)
(* A cell of trans_var_df is Some(number) or None for nan.                 *)
(***************************************************************************)
\* the models whose transition variances are written, with one stage more
\* than the models of the layout: the attributes estimate_params_wa reads
\* for the Q slice
TransVarModels ==
    UNION {{[estimator |-> "wa", nfac |-> Len(tn), nstages |-> ns, nperiods |-> ns + 1,
             transition_names |-> tn, new_trans_coeffs |-> ntc] :
               ntc \in NewTransCoeffsChoices(ns, tn)} :
           tn \in UNION {[1..nf -> {"linear", "constant"}] : nf \in 1..MaxNfac},
           ns \in 1..(MaxStages + 1)}

\* trans_var_df as _calculate_wa_quantities returns it: the estimate of
\* stage s and factor f is 2^(s * nfac + f) times a scale, so that a sum of
\* estimates tells which estimates were added; the column of a constant
\* factor is absent
TransVarEstimate(m, scale, s, f) == scale * 2 ^ (s * m.nfac + f)

TransVarScales == {1, 3}

TransVarDf(m, scale) ==
    [s \in 1..m.nstages |-> [f \in 1..m.nfac |->
        IF m.transition_names[f] = "constant" THEN None
        ELSE Some(TransVarEstimate(m, scale, s - 1, f - 1))]]

\* a + b, nan if one of them is nan
NanAdd(a, b) == IF a = None \/ b = None THEN None ELSE Some(a[1] + b[1])

\* the stages in ascending order
StageOrder_forward(m) == [i \in 1..m.nstages |-> i - 1]

\* line 1346: reversed(self.stages)
StageOrder(m) == [i \in 1..m.nstages |-> m.nstages - i]

\* lines 1347-1350 for the stages order[i..] of the factor f (from 0)
RECURSIVE AddToPreviousStage(_, _, _, _, _)
AddToPreviousStage(m, df, f, order, i) ==
    IF i > Len(order) THEN df
    ELSE LET s == order[i]
         IN IF m.new_trans_coeffs[s + 1][f + 1] = 0 /\ s >= 1
            THEN AddToPreviousStage(m,
                     [df EXCEPT ![s][f + 1] = NanAdd(df[s][f + 1], df[s + 1][f + 1]),
                                ![s + 1][f + 1] = None],
                     f, order, i + 1)
            ELSE AddToPreviousStage(m, df, f, order, i + 1)

\* lines 1344-1350 for the factors f.. (from 0)
RECURSIVE SumOverEqualStages(_, _, _)
SumOverEqualStages(m, df, f) ==
    IF f >= m.nfac THEN df
    ELSE SumOverEqualStages(m,
             IF m.transition_names[f + 1] # "constant"
             THEN AddToPreviousStage(m, df, f, StageOrder(m), 1)
             ELSE df,
             f + 1)

\* lines 1353-1357
trans_var_list(m, df) ==
    Concat([s \in 1..m.nstages |->
        Concat([f \in 1..m.nfac |->
            IF m.new_trans_coeffs[s][f] = 1 THEN <<df[s][f]>> ELSE <<>>])])

\* lines 1338-1360: what is written to params[slices['Q']]; a stage 0 with
\* new_trans_coeffs 0 has no stage before it
estimate_params_wa_Q(m, trans_var_df) ==
    IF \E f \in 1..m.nfac : /\ m.transition_names[f] # "constant"
                            /\ m.new_trans_coeffs[1][f] = 0
    THEN Raised("KeyError")
    ELSE Returned(trans_var_list(m, SumOverEqualStages(m, trans_var_df, 0)))

EstimateParamsWaQ ==
    /\ fres = None
    /\ fres' = FunctionResult("estimate_params_wa",
                   estimate_params_wa_Q(model, fargs[1].trans_var_df))
    /\ UNCHANGED OnlyFunction

TransVarInit ==
    /\ model \in TransVarModels
    /\ param_counter = None
    /\ ps_pc = 0
    /\ ps_type = None
    /\ ps_slices = <<>>
    /\ ps_allocs = <<>>
    /\ returned = None
    /\ call = None
    /\ NoEstimation
    /\ NoKalman
    /\ NoWa
    /\ fargs \in {Some([scale |-> scale, trans_var_df |-> TransVarDf(model, scale)]) :
                     scale \in TransVarScales}
    /\ fres = None

TransVarNext == EstimateParamsWaQ

SpecTransVar == TransVarInit /\ [][TransVarNext]_vars

\* the last stage of the run of the factor f that starts in stage s0: the
\* stages after s0 up to it have new_trans_coeffs 0
RunEnd(m, s0, f) ==
    CHOOSE e \in s0..(m.nstages - 1) :
        /\ \A s \in (s0 + 1)..e : m.new_trans_coeffs[s + 1][f + 1] = 0
        /\ e = m.nstages - 1 \/ m.new_trans_coeffs[e + 2][f + 1] # 0

RECURSIVE RunSum(_, _, _, _, _)
RunSum(m, scale, s, e, f) ==
    IF s > e THEN 0
    ELSE TransVarEstimate(m, scale, s, f) + RunSum(m, scale, s + 1, e, f)

\* the pairs (s, f) with new_trans_coeffs[s, f] == 1, stage-major
QSlots(m) ==
    Concat([s \in 1..m.nstages |->
        Concat([f \in 1..m.nfac |->
            IF m.new_trans_coeffs[s][f] = 1 THEN << <<s - 1, f - 1>> >> ELSE <<>>])])

\* C20: for every non-constant factor f and every maximal run of stages that
\* starts in a stage s0 with new_trans_coeffs[s0, f] == 1 and goes on through
\* stages with new_trans_coeffs 0, the variance written to the Q slot of
\* (s0, f) is the sum of the estimates of all stages of the run, whatever
\* its length; as many values are written as there are (s, f) with
\* new_trans_coeffs[s, f] == 1, which is the length of the Q slice, stage
\* by stage and within a stage factor by factor.
C20_ShockVariances ==
    fres # None =>
        LET slots == QSlots(model)
        IN /\ fres[1].out.ok
           /\ Len(fres[1].out.val) = Len(slots)
           /\ Len(fres[1].out.val) = Q_length(model)
           /\ \A i \in 1..Len(slots) :
                 LET s0 == slots[i][1]
                     f == slots[i][2]
                 IN fres[1].out.val[i] =
                        Some(RunSum(model, fargs[1].scale, s0, RunEnd(model, s0, f), f))

\* the variances of a model with a run of three stages and a run of one
\* stage have been written
C20_Witness ==
    /\ fres # None
    /\ fres[1].out.ok
    /\ \E f \in 0..(model.nfac - 1), i \in 1..Len(QSlots(model)) :
          /\ QSlots(model)[i] = <<0, f>>
          /\ RunEnd(model, 0, f) = 2
          /\ fres[1].out.val[i] = Some(RunSum(model, fargs[1].scale, 0, 2, f))
    /\ \E s \in 0..(model.nstages - 1), f \in 0..(model.nfac - 1) :
          /\ model.new_trans_coeffs[s + 1][f + 1] = 1
          /\ RunEnd(model, s, f) = s

\* ---------------------------------------------------------------------------
\* Bounds and constraints of the maximization inputs
\* (likelihood_function.py, get_maximization_inputs; the functions of
\* skillmodels.constraints are exercised by tests/pre_processing/
\* test_constraints.py).
\* ---------------------------------------------------------------------------

MaxBoundRows == 3

\* First index levels of the rows of a params frame.
FirstLevels == {"q", "r", "bla"}

BoundsDistances == {Frac(1, 10), Frac(1, 1)}

\* A frame holds one row per index tuple; as in the test, the cells are
\* np.arange(2 * nrows).reshape(nrows, 2) under the columns lower and upper.
BoundsFrame(ind_tups) ==
    [i \in 1..Len(ind_tups) |->
        [index |-> ind_tups[i],
         lower |-> Frac(2 * (i - 1), 1),
         upper |-> Frac(2 * (i - 1) + 1, 1)]]

IndexTuples(n) == {[i \in 1..n |-> <<firsts[i], i - 1>>] : firsts \in [1..n -> FirstLevels]}

\* test_add_bounds: ind_tups and df.
test_add_bounds_ind_tups ==
    <<<<"q", 0>>, <<"q", 1>>, <<"q", 2>>, <<"q", 3>>, <<"q", 4>>,
      <<"r", 4>>, <<"bla", "blubb">>, <<"r", "foo">>>>

test_add_bounds_df == BoundsFrame(test_add_bounds_ind_tups)

\* test_add_bounds: expected["lower"] = [0.1] * 5 + [0.1, 12, 0.1].
test_add_bounds_expected ==
    [i \in 1..8 |->
        [index |-> test_add_bounds_ind_tups[i],
         lower |-> IF i = 7 THEN Frac(12, 1) ELSE Frac(1, 10),
         upper |-> Frac(2 * (i - 1) + 1, 1)]]

BoundsFrames ==
    {test_add_bounds_df}
        \cup UNION {{BoundsFrame(t) : t \in IndexTuples(n)} : n \in 1..MaxBoundRows}

is_variance_row_q_only(ind_tup) == ind_tup[1] = "q"

\* The rows of the shock variances and of the measurement variances.
is_variance_row(ind_tup) == ind_tup[1] \in {"q", "r"}

\* add_bounds(params_df, bounds_distance): a copy of the frame whose lower
\* bound is bounds_distance on the variance rows.
add_bounds(params_df, bounds_distance) ==
    [i \in 1..Len(params_df) |->
        IF is_variance_row(params_df[i].index)
        THEN [params_df[i] EXCEPT !.lower = bounds_distance]
        ELSE params_df[i]]

AddBoundsArguments ==
    {[function |-> "add_bounds", params_df |-> df, bounds_distance |-> d] :
        df \in BoundsFrames, d \in BoundsDistances}

AddBounds ==
    /\ fres = None
    /\ fargs[1].function = "add_bounds"
    /\ fres' = FunctionResult("add_bounds",
                  add_bounds(fargs[1].params_df, fargs[1].bounds_distance))
    /\ UNCHANGED OnlyFunction

MaxCPeriods == 3

MeasurementOrder == <<"m1", "m2", "m3">>

MeasurementNames == Range(MeasurementOrder)

\* Row (t, m) of update_info is repeated when m was measured in an earlier
\* period; first_occurence is the earliest such period.
EarlierPeriods(meas_sets, t, m) == {s \in 0..(t - 1) : m \in meas_sets[s + 1]}

UinfoRow(meas_sets, t, m) ==
    LET earlier == EarlierPeriods(meas_sets, t, m)
    IN  [period |-> t,
         meas |-> m,
         is_repeated |-> earlier /= {},
         first_occurence |->
             IF earlier = {} THEN None
             ELSE Some(CHOOSE s \in earlier : \A u \in earlier : s <= u)]

\* update_info of a model whose period t has the measurements meas_sets[t + 1]:
\* the rows in the order of the periods and, inside a period, of the names.
Uinfo(meas_sets) ==
    Concat([p \in 1..Len(meas_sets) |->
        LET names == SelectSeq(MeasurementOrder, LAMBDA m : m \in meas_sets[p])
        IN  [i \in 1..Len(names) |-> UinfoRow(meas_sets, p - 1, names[i])]])

\* test_invariant_meas_system_constraints: uinfo, controls, factors.
test_invariant_uinfo == Uinfo(<<{"m1", "m2"}, {"m1", "m3"}, {"m1", "m3"}>>)

test_invariant_controls == <<<<"cont">>, <<"cont">>, <<"cont">>>>

test_invariant_factors == <<"fac1", "fac2">>

Equality(loc1, loc2) == [loc |-> <<loc1, loc2>>, type |-> "equality"]

\* test_invariant_meas_system_constraints: expected.
test_invariant_expected ==
    {Equality(<<"delta", 1, "m1", "constant">>, <<"delta", 0, "m1", "constant">>),
     Equality(<<"delta", 1, "m1", "cont">>, <<"delta", 0, "m1", "cont">>),
     Equality(<<"h", 1, "m1", "fac1">>, <<"h", 0, "m1", "fac1">>),
     Equality(<<"h", 1, "m1", "fac2">>, <<"h", 0, "m1", "fac2">>),
     Equality(<<"r", 1, "m1", "">>, <<"r", 0, "m1", "">>),
     Equality(<<"delta", 2, "m1", "constant">>, <<"delta", 0, "m1", "constant">>),
     Equality(<<"delta", 2, "m1", "cont">>, <<"delta", 0, "m1", "cont">>),
     Equality(<<"h", 2, "m1", "fac1">>, <<"h", 0, "m1", "fac1">>),
     Equality(<<"h", 2, "m1", "fac2">>, <<"h", 0, "m1", "fac2">>),
     Equality(<<"r", 2, "m1", "">>, <<"r", 0, "m1", "">>),
     Equality(<<"delta", 2, "m3", "constant">>, <<"delta", 1, "m3", "constant">>),
     Equality(<<"delta", 2, "m3", "cont">>, <<"delta", 1, "m3", "cont">>),
     Equality(<<"h", 2, "m3", "fac1">>, <<"h", 1, "m3", "fac1">>),
     Equality(<<"h", 2, "m3", "fac2">>, <<"h", 1, "m3", "fac2">>),
     Equality(<<"r", 2, "m3", "">>, <<"r", 1, "m3", "">>)}

linked_period_preceding(t, first_occurence) == t - 1

\* The period a repeated update is linked to.
linked_period(t, first_occurence) == first_occurence[1]

\* The constraints of one repeated update: intercept and control
\* coefficients, loadings, measurement variance.
invariant_constraints_of_row(row, controls_t, factors) ==
    LET t == row.period
        m == row.meas
        t0 == linked_period(t, row.first_occurence)
        conts == <<"constant">> \o controls_t
    IN  [i \in 1..Len(conts) |->
            Equality(<<"delta", t, m, conts[i]>>, <<"delta", t0, m, conts[i]>>)]
        \o [i \in 1..Len(factors) |->
            Equality(<<"h", t, m, factors[i]>>, <<"h", t0, m, factors[i]>>)]
        \o <<Equality(<<"r", t, m, "">>, <<"r", t0, m, "">>)>>

\* _invariant_meas_system_constraints(uinfo, controls, factors)
_invariant_meas_system_constraints(uinfo, controls, factors) ==
    Concat([k \in 1..Len(uinfo) |->
        IF uinfo[k].is_repeated
        THEN invariant_constraints_of_row(
                 uinfo[k], controls[uinfo[k].period + 1], factors)
        ELSE <<>>])

ControlLists == {<<>>, <<"cont">>}

FactorLists == {<<"fac1">>, <<"fac1", "fac2">>}

InvariantArguments ==
    {[function |-> "_invariant_meas_system_constraints",
      uinfo |-> Uinfo(ms),
      controls |-> [p \in 1..Len(ms) |-> c],
      factors |-> f] :
        ms \in UNION {[1..n -> (SUBSET MeasurementNames) \ {{}}] : n \in 2..MaxCPeriods},
        c \in ControlLists, f \in FactorLists}

InvariantMeasSystemConstraints ==
    /\ fres = None
    /\ fargs[1].function = "_invariant_meas_system_constraints"
    /\ fres' = FunctionResult("_invariant_meas_system_constraints",
                  _invariant_meas_system_constraints(
                      fargs[1].uinfo, fargs[1].controls, fargs[1].factors))
    /\ UNCHANGED OnlyFunction

TransitionNames == {"linear_with_constant", "log_ces", "constant"}

\* The names of the transition coefficients of one factor.
transition_coefficient_names(transition_name, included) ==
    CASE transition_name = "linear_with_constant" ->
            [i \in 1..Len(included) |-> "lincoeff-" \o included[i]]
                \o <<"lincoeff-constant">>
      [] transition_name = "log_ces" ->
            [i \in 1..Len(included) |-> "gamma-" \o included[i]]
                \o <<"phi">>
      [] OTHER -> <<>>

\* test_stage_constraints: stagemap, factors, transition_names,
\* included_factors and expected.
test_stage_stagemap == <<0, 0, 0, 0>>

test_stage_expected ==
    {Equality(<<"trans", 0, "fac1", "lincoeff-fac1">>,
              <<"trans", 1, "fac1", "lincoeff-fac1">>),
     Equality(<<"trans", 0, "fac1", "lincoeff-constant">>,
              <<"trans", 1, "fac1", "lincoeff-constant">>),
     Equality(<<"q", 0, "fac1", "">>, <<"q", 1, "fac1", "">>),
     Equality(<<"trans", 1, "fac1", "lincoeff-fac1">>,
              <<"trans", 2, "fac1", "lincoeff-fac1">>),
     Equality(<<"trans", 1, "fac1", "lincoeff-constant">>,
              <<"trans", 2, "fac1", "lincoeff-constant">>),
     Equality(<<"q", 1, "fac1", "">>, <<"q", 2, "fac1", "">>)}

stage_periods_with_last(stagemap) == [i \in 1..(Len(stagemap) - 1) |-> i]

\* The periods that can be linked to the period before them: all but the
\* first and the last one.
stage_periods(stagemap) == [i \in 1..(Len(stagemap) - 2) |-> i]

stage_constraints_of_factor(period, factor, names) ==
    [i \in 1..Len(names) |->
        Equality(<<"trans", period - 1, factor, names[i]>>,
                 <<"trans", period, factor, names[i]>>)]
    \o <<Equality(<<"q", period - 1, factor, "">>,
                  <<"q", period, factor, "">>)>>

\* _stage_constraints(stagemap, factors, transition_names, included_factors)
_stage_constraints(stagemap, factors, transition_names, included_factors) ==
    LET linked == stage_periods(stagemap)
    IN  Concat([k \in 1..Len(linked) |->
            IF stagemap[linked[k] + 1] = stagemap[linked[k]]
            THEN Concat([f \in 1..Len(factors) |->
                     stage_constraints_of_factor(linked[k], factors[f],
                         transition_coefficient_names(
                             transition_names[f], included_factors[f]))])
            ELSE <<>>])

\* Stagemaps start in stage 0 and never skip a stage.
Stagemaps ==
    {sm \in UNION {[1..n -> 0..(n - 1)] : n \in 2..(MaxCPeriods + 1)} :
        /\ sm[1] = 0
        /\ \A i \in 2..Len(sm) : sm[i] \in {sm[i - 1], sm[i - 1] + 1}}

IncludedChoices(factors) ==
    [1..Len(factors) -> {factors} \cup {<<factors[i]>> : i \in 1..Len(factors)}]

StageArguments ==
    {[function |-> "_stage_constraints",
      stagemap |-> sm,
      factors |-> a.factors,
      transition_names |-> a.transition_names,
      included_factors |-> a.included_factors] :
        sm \in Stagemaps,
        a \in UNION {{[factors |-> f, transition_names |-> tn, included_factors |-> inc] :
                        tn \in [1..Len(f) -> TransitionNames],
                        inc \in {i \in IncludedChoices(f) :
                                    \A k \in 1..Len(f) : InList(f[k], i[k])}} :
                     f \in FactorLists}}

StageConstraints ==
    /\ fres = None
    /\ fargs[1].function = "_stage_constraints"
    /\ fres' = FunctionResult("_stage_constraints",
                  _stage_constraints(fargs[1].stagemap, fargs[1].factors,
                      fargs[1].transition_names, fargs[1].included_factors))
    /\ UNCHANGED OnlyFunction

ConstraintsArguments == AddBoundsArguments \cup InvariantArguments \cup StageArguments

ConstraintsInit ==
    /\ NoModel
    /\ NoKalman
    /\ NoWa
    /\ fargs \in {Some(a) : a \in ConstraintsArguments}
    /\ fres = None

ConstraintsNext == AddBounds \/ InvariantMeasSystemConstraints \/ StageConstraints

SpecConstraints == ConstraintsInit /\ [][ConstraintsNext]_vars

AddBoundsRan == fres /= None /\ fres[1].op = "add_bounds"

\* C21: add_bounds sets the lower bound to bounds_distance on exactly the
\* rows whose first index level is q or r, and leaves the lower bound of
\* every other row, the upper bound of every row and the index unchanged;
\* on the frame of test_add_bounds the result is the expected frame.
C21_AddBounds ==
    AddBoundsRan =>
        LET df == fargs[1].params_df
            d == fargs[1].bounds_distance
            out == fres[1].out
        IN  /\ Len(out) = Len(df)
            /\ \A i \in 1..Len(df) :
                  /\ out[i].index = df[i].index
                  /\ out[i].upper = df[i].upper
                  /\ out[i].lower = IF df[i].index[1] \in {"q", "r"}
                                    THEN d ELSE df[i].lower
            /\ (df = test_add_bounds_df /\ d = Frac(1, 10))
                  => out = test_add_bounds_expected

C21_Witness ==
    /\ AddBoundsRan
    /\ \E i, j, k \in 1..Len(fargs[1].params_df) :
          /\ fargs[1].params_df[i].index[1] = "q"
          /\ fargs[1].params_df[j].index[1] = "r"
          /\ fargs[1].params_df[k].index[1] = "bla"
          /\ fres[1].out[i].lower /= fargs[1].params_df[i].lower
          /\ fres[1].out[j].lower /= fargs[1].params_df[j].lower
          /\ fres[1].out[k].lower = fargs[1].params_df[k].lower

InvariantRan == fres /= None /\ fres[1].op = "_invariant_meas_system_constraints"

RepeatedRows(uinfo) == {k \in 1..Len(uinfo) : uinfo[k].is_repeated}

\* C22: _invariant_meas_system_constraints emits, for every repeated update
\* (t, m) with first occurrence t0, one equality constraint linking (t, m)
\* to (t0, m) for the intercept, for each control coefficient, for the
\* loading on each factor and for the measurement variance, that is
\* 1 + ncontrols + nfactors + 1 constraints, and nothing for an update that
\* is not repeated; on the input of the test it emits the expected list.
C22_InvariantMeasSystem ==
    InvariantRan =>
        LET uinfo == fargs[1].uinfo
            controls == fargs[1].controls
            factors == fargs[1].factors
            out == fres[1].out
            Wanted(k) ==
                LET t == uinfo[k].period
                    m == uinfo[k].meas
                    t0 == uinfo[k].first_occurence[1]
                IN  {Equality(<<"delta", t, m, c>>, <<"delta", t0, m, c>>) :
                        c \in {"constant"} \cup Range(controls[t + 1])}
                    \cup {Equality(<<"h", t, m, f>>, <<"h", t0, m, f>>) :
                        f \in Range(factors)}
                    \cup {Equality(<<"r", t, m, "">>, <<"r", t0, m, "">>)}
        IN  /\ Range(out) = UNION {Wanted(k) : k \in RepeatedRows(uinfo)}
            /\ \A k \in RepeatedRows(uinfo) :
                  Cardinality(Wanted(k))
                      = 1 + Len(controls[uinfo[k].period + 1]) + Len(factors) + 1
            /\ Len(out) = Cardinality(Range(out))
            /\ \A i \in 1..Len(out) :
                  \E k \in RepeatedRows(uinfo) :
                      /\ out[i].loc[1][2] = uinfo[k].period
                      /\ out[i].loc[1][3] = uinfo[k].meas
            /\ (/\ uinfo = test_invariant_uinfo
                /\ controls = test_invariant_controls
                /\ factors = test_invariant_factors)
                  => Range(out) = test_invariant_expected

\* a measurement of period 2 repeated from period 0 and not from period 1,
\* beside an update that is not repeated
C22_Witness ==
    /\ InvariantRan
    /\ \E k \in RepeatedRows(fargs[1].uinfo) :
          /\ fargs[1].uinfo[k].period = 2
          /\ fargs[1].uinfo[k].first_occurence = Some(0)
          /\ \E i \in 1..Len(fres[1].out) :
                /\ fres[1].out[i].loc[1] = <<"r", 2, fargs[1].uinfo[k].meas, "">>
                /\ fres[1].out[i].loc[2] = <<"r", 0, fargs[1].uinfo[k].meas, "">>
    /\ \E k \in 1..Len(fargs[1].uinfo) :
          /\ ~fargs[1].uinfo[k].is_repeated
          /\ fargs[1].uinfo[k].period = 1
    /\ fargs[1].controls[1] /= <<>>

StageRan == fres /= None /\ fres[1].op = "_stage_constraints"

\* C23: _stage_constraints emits, for every pair of consecutive periods p
\* and p + 1, both before the last period, that the stagemap assigns to the
\* same stage, one equality constraint per transition coefficient of each
\* factor and one for the shock variance of the factor, linking p and p + 1;
\* it emits nothing between periods of different stages and nothing that
\* names the last period; on the input of the test it emits the expected
\* list.
C23_StageConstraints ==
    StageRan =>
        LET stagemap == fargs[1].stagemap
            factors == fargs[1].factors
            last == Len(stagemap) - 1
            out == fres[1].out
            Names(f) ==
                Range(transition_coefficient_names(
                    fargs[1].transition_names[f], fargs[1].included_factors[f]))
            Pairs == {p \in 0..(last - 2) : stagemap[p + 1] = stagemap[p + 2]}
            Wanted(p, f) ==
                {Equality(<<"trans", p, factors[f], n>>,
                          <<"trans", p + 1, factors[f], n>>) : n \in Names(f)}
                \cup {Equality(<<"q", p, factors[f], "">>,
                               <<"q", p + 1, factors[f], "">>)}
        IN  /\ Range(out) = UNION {Wanted(p, f) : p \in Pairs, f \in 1..Len(factors)}
            /\ Len(out) = Cardinality(Range(out))
            /\ \A i \in 1..Len(out) :
                  /\ out[i].loc[1][2] < last
                  /\ out[i].loc[2][2] < last
                  /\ out[i].loc[2][2] = out[i].loc[1][2] + 1
                  /\ stagemap[out[i].loc[1][2] + 1] = stagemap[out[i].loc[2][2] + 1]
            /\ (/\ stagemap = test_stage_stagemap
                /\ factors = <<"fac1">>
                /\ fargs[1].transition_names = <<"linear_with_constant">>
                /\ fargs[1].included_factors = <<<<"fac1">>>>)
                  => Range(out) = test_stage_expected

\* a stagemap whose periods 0 and 1 share a stage, whose period 2 starts
\* the next stage and whose last period continues it
C23_Witness ==
    /\ StageRan
    /\ fargs[1].stagemap = <<0, 0, 1, 1>>
    /\ Len(fargs[1].factors) = 2
    /\ fargs[1].transition_names[1] = "linear_with_constant"
    /\ \E i \in 1..Len(fres[1].out) :
          fres[1].out[i] = Equality(<<"q", 0, "fac2", "">>, <<"q", 1, "fac2", "">>)
    /\ \A i \in 1..Len(fres[1].out) : fres[1].out[i].loc[2][2] = 1

\* ---------------------------------------------------------------------------
\* The lifetime of param_counter (skill_model.py, lines 78-96 and 614-634).
\* ---------------------------------------------------------------------------

\* The cap on the counter a direct call may go on from.
MaxDirectCounter == 6

\* A transition name for which transition_functions has no nr_coeffs_
\* function.
UnknownTransition == "unknown"

\* line 553: getattr(tf, func) finds the function
has_nr_coeffs(name) == name \in Transitions

UnknownFactors(m) == {f \in 0..(m.nfac - 1) : ~has_nr_coeffs(m.transition_names[f + 1])}

\* lines 550-555: the loop of _params_slice_for_trans_coeffs reaches a
\* factor whose nr_coeffs_ function does not exist (stage 0 of every factor
\* has new_trans_coeffs in [1, -1]) and getattr raises AttributeError.
_params_slice_for_raises(quantity, m) ==
    quantity = "trans_coeffs" /\ UnknownFactors(m) /= {}

\* the slots the loop has taken for the factors before the failing one
TransCoeffsTakenBefore(m, params_type) ==
    LET f0 == CHOOSE f \in UnknownFactors(m) : \A g \in UnknownFactors(m) : f <= g
    IN  SumSeq([k \in 1..(f0 * m.nstages) |->
            LET f == (k - 1) \div m.nstages
                s == (k - 1) % m.nstages
            IN  IF AllocatesTransCoeffs(m.new_trans_coeffs[s + 1][f + 1])
                THEN nr_coeffs(m.transition_names[f + 1], m.nfac, params_type)
                ELSE 0])

CounterModels ==
    {[m EXCEPT !.transition_names =
          [f \in 1..m.nfac |-> IF f \in F THEN UnknownTransition
                               ELSE m.transition_names[f]]] :
        m \in {x \in ShapeModels : x.nmeas = 1}, F \in SUBSET (1..MaxNfac)}

CounterInit ==
    /\ model \in CounterModels
    /\ param_counter = None
    /\ ps_pc = 0
    /\ ps_type = None
    /\ ps_slices = <<>>
    /\ ps_allocs = <<>>
    /\ returned = None
    /\ call = None
    /\ NoEstimation
    /\ NoKalman
    /\ NoFunction
    /\ NoWa

\* lines 629-631: a pass of the loop whose method returns
ParamsSlicesQuantityReturns ==
    /\ ps_pc \in 1..Len(params_quants(model))
    /\ ~_params_slice_for_raises(params_quants(model)[ps_pc], model)
    /\ ParamsSlicesQuantity

\* lines 629-631: a pass of the loop whose method raises; params_slices is
\* left through the exception and line 633 is not reached
ParamsSlicesQuantityRaises ==
    /\ ps_pc \in 1..Len(params_quants(model))
    /\ _params_slice_for_raises(params_quants(model)[ps_pc], model)
    /\ param_counter' = Some(param_counter[1] + TransCoeffsTakenBefore(model, ps_type[1]))
    /\ call' = Call("params_slices", ps_type[1], None, "user", Raised("AttributeError"))
    /\ ps_pc' = 0
    /\ UNCHANGED <<model, ps_type, ps_slices, ps_allocs, returned>>
    /\ UNCHANGED evars
    /\ UNCHANGED NotLayout

DirectLengths == {1, 2}

\* lines 90-96: _general_params_slice called from outside params_slices
GeneralParamsSliceDirect ==
    /\ ps_pc = 0
    /\ call = None
    /\ \E length \in DirectLengths :
          IF param_counter = None
          THEN /\ call' = Call("_general_params_slice", "None", Some(length), "user",
                               Raised("AssertionError"))
               /\ UNCHANGED param_counter
          ELSE /\ param_counter[1] <= MaxDirectCounter
               /\ call' = Call("_general_params_slice", "None", Some(length), "user",
                               Returned(Slice(param_counter[1], param_counter[1] + length)))
               /\ param_counter' = Some(param_counter[1] + length)
    /\ UNCHANGED <<model, ps_pc, ps_type, ps_slices, ps_allocs, returned>>
    /\ UNCHANGED evars
    /\ UNCHANGED NotLayout

CounterNext ==
    \/ ParamsSlicesBegin
    \/ ParamsSlicesQuantityReturns
    \/ ParamsSlicesQuantityRaises
    \/ ParamsSlicesEnd
    \/ GeneralParamsSliceDirect
    \/ CallReturn

SpecCounter == CounterInit /\ [][CounterNext]_vars

C24_LeftoverOnlyAfterException ==
    /\ (ps_pc = 0 /\ param_counter /= None) => UnknownFactors(model) /= {}
    /\ ps_pc = 1 => param_counter = Some(0)
    /\ (call /= None /\ call[1].op = "_general_params_slice" /\ call[1].res.ok)
          => UnknownFactors(model) /= {}

\* a direct call that returns a slice after params_slices has raised
C24_DirectCallReturnsSlice ==
    /\ call /= None
    /\ call[1].op = "_general_params_slice"
    /\ call[1].res.ok
    /\ call[1].res.val[2] > 0

\* C25: len_params(params_type) is the number of slots params_slices has
\* allocated, the final value of the counter, for every composition of
\* params_quants, also when the last quantity is trans_coeffs and the last
\* stage of the last factor is aliased to an earlier stage or has no
\* coefficients.
C25_LenParamsIsCounter ==
    returned /= None =>
        /\ len_params(model, returned[1].params_type) = returned[1].counter
        /\ returned[1].counter
              = SumSeq([i \in 1..Len(returned[1].allocs) |-> SliceLen(returned[1].allocs[i])])
        /\ \A i \in 1..Len(returned[1].allocs) :
              returned[1].allocs[i][3] <= len_params(model, returned[1].params_type)

\* trans_coeffs is the last quantity, the last stage of the last factor is
\* aliased to stage 0 and the first factor is constant
C25_Witness ==
    /\ returned /= None
    /\ params_quants(model)[Len(params_quants(model))] = "trans_coeffs"
    /\ model.nfac = 2
    /\ model.nstages = 2
    /\ model.new_trans_coeffs[2][2] = 0
    /\ model.transition_names[1] = "constant"
    /\ returned[1].counter > 0

\* the entries of ktrace that are updates
IsUpdateStep(e) == e[1] = "update"

\* the steps of the trace that individual i has in a quantity: the predicts
\* if with_predicts, and the updates for which i had the measurement and,
\* if measurement_only, whose purpose is measurement
StepsOf(i, with_predicts, measurement_only) ==
    LET kept == SelectSeq(ktrace, LAMBDA e :
                    IF IsUpdateStep(e)
                    THEN /\ measurements[e[4] + 1][i] /= NaN
                         /\ (measurement_only => purpose(kin, e[2], e[3]) = "measurement")
                    ELSE with_predicts)
    IN  [n \in 1..Len(kept) |->
            IF IsUpdateStep(kept[n]) THEN <<"update", kept[n][4]>>
            ELSE <<"predict", kept[n][2]>>]

\* C26: in _log_likelihood_jax an update whose purpose is not measurement
\* leaves the states and the Cholesky factors that the later steps receive
\* as they were, while its log likelihoods are written to row k and the
\* mixture weights are replaced by the updated ones; an update whose
\* purpose is measurement replaces states, factors and weights.
C26_AnchoringUpdate ==
    /\ \A i \in Individuals :
          /\ states[i] = StepsOf(i, TRUE, TRUE)
          /\ upper_chols[i] = StepsOf(i, TRUE, TRUE)
          /\ log_mixture_weights[i] = StepsOf(i, FALSE, FALSE)
    /\ \A n \in 1..Len(ktrace) :
          IsUpdateStep(ktrace[n]) =>
              \A i \in Individuals :
                  measurements[ktrace[n][4] + 1][i] /= NaN
                      => loglikes[ktrace[n][4] + 1][i] /= 0

\* an anchoring update for which both individuals had the measurement,
\* followed by a predict and an update of the next period
C26_Witness ==
    \E n \in 1..Len(ktrace) :
        /\ IsUpdateStep(ktrace[n])
        /\ purpose(kin, ktrace[n][2], ktrace[n][3]) = "anchoring"
        /\ \A i \in Individuals :
              /\ measurements[ktrace[n][4] + 1][i] /= NaN
              /\ loglikes[ktrace[n][4] + 1][i] /= 0
              /\ \E w \in 1..Len(log_mixture_weights[i]) :
                    log_mixture_weights[i][w] = <<"update", ktrace[n][4]>>
              /\ \A s \in 1..Len(states[i]) : states[i][s] /= <<"update", ktrace[n][4]>>
        /\ n + 2 <= Len(ktrace)
        /\ ktrace[n + 1][1] = "predict"
        /\ IsUpdateStep(ktrace[n + 2])

\* ---------------------------------------------------------------------------
\* One run of estimate_params_chs, evaluation by evaluation
\* (skill_model.py, lines 983-1019).  evals is the list of the evaluations
\* minimize has asked for in the run, in their order.
\* ---------------------------------------------------------------------------

MaxRunEvaluations == 3

\* the counter is not advanced
IterationCounterAfter_unchanged(counter) == counter

\* line 987: self.optimize_iteration_counter += 1
IterationCounterAfter(counter) == counter + 1

\* a counter and files left by an earlier run
LeftoverCounters == {None, Some(2)}

\* the vector an earlier run has written
StaleParams == Iterate(<<>>, 0)

LeftoverFiles == {<<>>, [i \in 1..(MaxRunEvaluations + 1) |-> Some(StaleParams)]}

RunX0(m) == Vec(len_params(m, "short"))

RunInit ==
    /\ LayoutInit
    /\ model \in ConcModels
    /\ start_params = None
    /\ optimize_iteration_counter \in LeftoverCounters
    /\ opt_results \in LeftoverFiles
    /\ args_dicts = <<>>
    /\ evals = <<>>
    /\ save_path \in SavePaths
    /\ NoKalman
    /\ NoFunction
    /\ NoWa

OnlyRun == <<model, param_counter, ps_pc, ps_type, ps_slices, ps_allocs, returned,
             start_params, args_dicts, save_path>>

RunIsOn == call /= None /\ call[1].res = None

LastEvalAt(pc) == evals /= <<>> /\ evals[Len(evals)].pc = pc

\* lines 996-1003: the counter is set to 0 and minimize is entered
EstimateBegin ==
    /\ ps_pc = 0
    /\ call = None
    /\ optimize_iteration_counter' = Some(0)
    /\ evals' = <<>>
    /\ call' = Call("estimate_params_chs", "short", RunX0(model), "given", None)
    /\ UNCHANGED opt_results
    /\ UNCHANGED OnlyRun
    /\ UNCHANGED NotLayout

\* line 1003: minimize calls self.nloglike for the next time
MinimizeEvaluates ==
    /\ RunIsOn
    /\ evals = <<>> \/ LastEvalAt("done")
    /\ Len(evals) < MaxRunEvaluations
    /\ evals' = Append(evals, [pc |-> "open",
                               params |-> Iterate(RunX0(model), Len(evals)),
                               wrote |-> None,
                               written_before_likelihood |-> FALSE])
    /\ UNCHANGED <<optimize_iteration_counter, opt_results, call>>
    /\ UNCHANGED OnlyRun
    /\ UNCHANGED NotLayout

\* lines 984-986: the file of the evaluation is opened and written; an
\* exception leaves minimize and estimate_params_chs
RunNloglikeOpen ==
    /\ RunIsOn
    /\ LastEvalAt("open")
    /\ IF LogError(save_path, optimize_iteration_counter) /= None
       THEN /\ evals' = [evals EXCEPT ![Len(evals)].pc = "raised"]
            /\ call' = Some([call[1] EXCEPT !.res =
                          Some(Raised(LogError(save_path, optimize_iteration_counter)[1]))])
            /\ UNCHANGED opt_results
       ELSE /\ opt_results' = WriteIterationFile(opt_results,
                                  optimize_iteration_counter[1], evals[Len(evals)].params)
            /\ evals' = [evals EXCEPT ![Len(evals)].pc = "increment",
                                      ![Len(evals)].wrote = optimize_iteration_counter]
            /\ UNCHANGED call
    /\ UNCHANGED optimize_iteration_counter
    /\ UNCHANGED OnlyRun
    /\ UNCHANGED NotLayout

\* line 987
RunNloglikeIncrement ==
    /\ RunIsOn
    /\ LastEvalAt("increment")
    /\ optimize_iteration_counter' = Some(IterationCounterAfter(optimize_iteration_counter[1]))
    /\ evals' = [evals EXCEPT ![Len(evals)].pc = "likelihood"]
    /\ UNCHANGED <<opt_results, call>>
    /\ UNCHANGED OnlyRun
    /\ UNCHANGED NotLayout

\* line 988: the likelihood is computed and returned to minimize
RunNloglikeLikelihood ==
    /\ RunIsOn
    /\ LastEvalAt("likelihood")
    /\ evals' = [evals EXCEPT
          ![Len(evals)].pc = "done",
          ![Len(evals)].written_before_likelihood =
              /\ evals[Len(evals)].wrote /= None
              /\ opt_results[evals[Len(evals)].wrote[1] + 1]
                    = Some(evals[Len(evals)].params)]
    /\ UNCHANGED <<optimize_iteration_counter, opt_results, call>>
    /\ UNCHANGED OnlyRun
    /\ UNCHANGED NotLayout

\* lines 1008-1019: minimize has returned
EstimateEnd ==
    /\ RunIsOn
    /\ LastEvalAt("done")
    /\ call' = Some([call[1] EXCEPT !.res =
                  Some(Returned([optimize_dict |-> [nfev |-> Len(evals)]]))])
    /\ UNCHANGED <<optimize_iteration_counter, opt_results, evals>>
    /\ UNCHANGED OnlyRun
    /\ UNCHANGED NotLayout

\* the caller has the result or the exception
EstimateReturn ==
    /\ call /= None
    /\ call[1].res /= None
    /\ call' = None
    /\ UNCHANGED <<optimize_iteration_counter, opt_results, evals>>
    /\ UNCHANGED OnlyRun
    /\ UNCHANGED NotLayout

RunNext ==
    \/ EstimateBegin
    \/ MinimizeEvaluates
    \/ RunNloglikeOpen
    \/ RunNloglikeIncrement
    \/ RunNloglikeLikelihood
    \/ EstimateEnd
    \/ EstimateReturn

SpecRun == RunInit /\ [][RunNext]_vars

\* a run has begun
RunBegun == call /= None \/ evals /= <<>>

\* the evaluations that have passed line 987
Incremented == {i \in 1..Len(evals) : evals[i].pc \in {"likelihood", "done"}}

\* the evaluations that have written their file
Logged == {i \in 1..Len(evals) : evals[i].pc \in {"increment", "likelihood", "done"}}

FitRan == call /= None /\ call[1].op = "fit"

EstimationSteps == {"nloglike", "long_params", "wa_quantities"}

CovarianceSteps == {"score_obs", "hessian", "cov"}

ResultSteps == {"like_res", "skillmodel_res"}

\* the place of a step in the order estimation, save, covariance, results
StepRank(step) ==
    IF step \in EstimationSteps THEN 1
    ELSE IF step = "params.json" THEN 2
    ELSE IF step \in CovarianceSteps THEN 3
    ELSE 4

\* C28: in fit the steps run in the order estimation, optional save,
\* covariance, results: with save_params_before_calculating_standard_errors
\* the estimated vector is written to params.json after the estimation and
\* before the covariance function is called, so it is there also when the
\* covariance computation fails; without the option nothing is written; no
\* results object is built unless the covariance matrix was computed.
C28_FitOrder ==
    FitRan =>
        LET steps == call[1].res.computed
            out == call[1].res.out
            save_params == call[1].origin.save_params
            estimated ==
                IF model.estimator = "chs" THEN InList("long_params", steps)
                ELSE out.ok \/ out.err /= "wa estimation error"
        IN  /\ \A a, b \in 1..Len(steps) :
                  a < b => StepRank(steps[a]) <= StepRank(steps[b])
            /\ InList("params.json", steps)
                  <=> /\ save_params
                      /\ estimated
                      /\ SaveParamsError(save_path, save_params) = None
            /\ InList("skillmodel_res", steps) <=> out.ok
            /\ InList("like_res", steps) <=> out.ok
            /\ out.ok => InList("cov", steps)

\* the parameters were saved and the covariance computation failed
C28_Witness ==
    /\ FitRan
    /\ call[1].origin.save_params
    /\ ~call[1].res.out.ok
    /\ call[1].res.out.err = "NotImplementedError"
    /\ InList("params.json", call[1].res.computed)
    /\ InList("nloglike", call[1].res.computed)
    /\ ~InList("cov", call[1].res.computed)

\* ---------------------------------------------------------------------------
\* The diagonal slots of P_zero (skill_model.py, lines 516-530 and 768-775).
\* ---------------------------------------------------------------------------

MaxPFac == 4

MaxPOffset == 2

\* the attributes of a model that the P_zero slots depend on
PZeroModels ==
    {[estimator |-> "chs", nfac |-> nf, nemf |-> ne, restrict_P_zeros |-> rp,
      robust_bounds |-> rb, bounds_distance |-> 1] :
        nf \in 1..MaxPFac, ne \in 1..MaxNemf, rp \in BOOLEAN, rb \in BOOLEAN}

\* start_values_per_quantity: the entries for P_zero
PZeroStartValues ==
    {[P_zero_diags |-> 5, P_zero_off_diags |-> o] : o \in {0, 2}}

\* lines 768-775: the start values of the P_zero slots; start is the vector
\* of zeros
start_values_P_zero(m, start, params_slice, vals) ==
    LET params_per_matrix == nr_upper_triangular_elements(m)
    IN  [p \in 1..Len(start) |->
            IF p - 1 \in SliceRange(params_slice)
            THEN IF ((p - 1 - params_slice[2]) % params_per_matrix)
                        \in diagonal_positions(m.nfac)
                 THEN vals.P_zero_diags
                 ELSE vals.P_zero_off_diags
            ELSE start[p]]

\* the P_zero slice of a vector that has before slots before it and after
\* slots after it
PZeroArguments ==
    {[m |-> m, before |-> b, after |-> a, vals |-> v] :
        m \in PZeroModels, b \in 0..MaxPOffset, a \in 0..1, v \in PZeroStartValues}

PZeroSlice(a) ==
    Slice(a.before, a.before + nr_matrices(a.m) * nr_upper_triangular_elements(a.m))

PZeroVectorLength(a) == PZeroSlice(a)[3] + a.after

SetBoundsForPZero ==
    /\ fres = None
    /\ LET a == fargs[1]
           empty == [p \in 1..PZeroVectorLength(a) |-> None]
       IN  fres' = FunctionResult("_set_bounds_for_P_zero",
                      _set_bounds_for_P_zero(
                          a.m, [lower_bound |-> empty, upper_bound |-> empty],
                          PZeroSlice(a)))
    /\ UNCHANGED OnlyFunction

StartValuesPZero ==
    /\ fres = None
    /\ LET a == fargs[1]
           zeros == [p \in 1..PZeroVectorLength(a) |-> 0]
       IN  fres' = FunctionResult("generate_start_params",
                      start_values_P_zero(a.m, zeros, PZeroSlice(a), a.vals))
    /\ UNCHANGED OnlyFunction

PZeroInit ==
    /\ NoModel
    /\ NoKalman
    /\ NoWa
    /\ fargs \in {Some(a) : a \in PZeroArguments}
    /\ fres = None

PZeroNext == SetBoundsForPZero \/ StartValuesPZero

SpecPZero == PZeroInit /\ [][PZeroNext]_vars

\* the entries (row, column) of the upper triangle of an nfac x nfac matrix
UpperTriangle(nfac) == {rc \in (0..(nfac - 1)) \X (0..(nfac - 1)) : rc[1] <= rc[2]}

\* the offset of an entry in the row-major flattening of the upper
\* triangle: the number of entries before it
TriangleOffset(nfac, rc) ==
    Cardinality({e \in UpperTriangle(nfac) :
                    e[1] < rc[1] \/ (e[1] = rc[1] /\ e[2] < rc[2])})

DiagonalOffsets(nfac) == {TriangleOffset(nfac, <<i, i>>) : i \in 0..(nfac - 1)}

\* the slots of the vector that hold a diagonal entry of one of the matrices
DiagonalSlots(a) ==
    {PZeroSlice(a)[2] + mat * nr_upper_triangular_elements(a.m) + d :
        mat \in 0..(nr_matrices(a.m) - 1), d \in DiagonalOffsets(a.m.nfac)}

\* C29: for every nfac >= 1 the positions cumsum([0, nfac, ..., 2]) are the
\* offsets of the diagonal entries (i, i) in the row-major flattening of
\* the upper triangle of an nfac x nfac matrix, in each of the nr_matrices
\* blocks; _set_bounds_for_P_zero gives the lower bound
\* robust_bounds * bounds_distance (positive with robust_bounds) to those
\* slots only and generate_start_params the diagonal start value to those
\* slots only.
C29_DiagonalSlots ==
    fres /= None =>
        LET a == fargs[1]
            out == fres[1].out
        IN  /\ diagonal_positions(a.m.nfac) = DiagonalOffsets(a.m.nfac)
            /\ Cardinality(DiagonalSlots(a)) = nr_matrices(a.m) * a.m.nfac
            /\ fres[1].op = "_set_bounds_for_P_zero" =>
                  /\ out.ok
                  /\ \A p \in 1..PZeroVectorLength(a) :
                        /\ out.val.upper_bound[p] = None
                        /\ out.val.lower_bound[p] =
                              IF p - 1 \in DiagonalSlots(a)
                              THEN Some(IF a.m.robust_bounds THEN a.m.bounds_distance ELSE 0)
                              ELSE None
            /\ fres[1].op = "generate_start_params" =>
                  \A p \in 1..PZeroVectorLength(a) :
                      out[p] = IF p - 1 \in DiagonalSlots(a) THEN a.vals.P_zero_diags
                               ELSE IF p - 1 \in SliceRange(PZeroSlice(a))
                               THEN a.vals.P_zero_off_diags
                               ELSE 0

\* the bounds of two blocks of a 4 x 4 matrix, whose diagonal offsets are
\* 0, 4, 7 and 9, inside a longer vector
C29_Witness ==
    /\ fres /= None
    /\ fres[1].op = "_set_bounds_for_P_zero"
    /\ fargs[1].m.nfac = 4
    /\ nr_matrices(fargs[1].m) = 2
    /\ fargs[1].m.robust_bounds
    /\ fargs[1].before = 2
    /\ {p \in 1..PZeroVectorLength(fargs[1]) : fres[1].out.val.lower_bound[p] /= None}
          = {3, 7, 10, 12, 13, 17, 20, 22}

\* ---------------------------------------------------------------------------
\* intercepts_from_means (wa_functions.py, lines 43-76).  data holds the
\* sample mean of every measurement of the factor in period 0; a row of
\* storage_df holds the loading and the intercept of a measurement.
\* ---------------------------------------------------------------------------

MaxInterceptMeas == 3

FracSub(a, b) == Frac(a[2] * b[3] - b[2] * a[3], a[3] * b[3])

FracMul(a, b) == Frac(a[2] * b[2], a[3] * b[3])

FracDiv(a, b) == Frac(a[2] * b[3], a[3] * b[2])

SampleMeans == {0, 3}

InterceptNormValues == {0, 1}

\* the normalization is empty or names a measurement and its intercept;
\* stored tells whether the row of that measurement holds the intercept
\* before the call
InterceptArguments(nmeas) ==
    {[means |-> means, loads |-> loads, normalization |-> norm[1],
      stored |-> norm[2], mean_list |-> ml] :
        means \in [1..nmeas -> SampleMeans],
        loads \in [1..nmeas -> LoadingChoices],
        norm \in {<<None, FALSE>>}
                    \cup {<<Some(<<n, c>>), s>> : n \in 1..nmeas,
                              c \in InterceptNormValues, s \in BOOLEAN},
        ml \in {<<>>, <<Frac(7, 1)>>}}

\* the rows (0, meas) before the call: the loadings are estimated and the
\* normalized intercept is filled in or not
InitialIntercepts(a) ==
    [m \in 1..Len(a.means) |->
        [loadings |-> Frac(a.loads[m], 1),
         intercepts |-> IF a.stored /\ a.normalization[1][1] = m
                        THEN Some(Frac(a.normalization[1][2], 1)) ELSE None]]

\* the intercept of every measurement is written
writes_intercept_always(meas, intercept_norm) == TRUE

\* line 73: if meas != intercept_norm
writes_intercept(meas, intercept_norm) == meas /= intercept_norm

\* lines 61-76
intercepts_from_means(data, normalization, storage, mean_list) ==
    IF normalization = None
    THEN [storage_df |-> [m \in 1..Len(data) |->
                             [storage[m] EXCEPT !.intercepts = Some(Frac(data[m], 1))]],
          mean_list |-> mean_list]
    ELSE LET intercept_norm == normalization[1][1]
             intercept_norm_val == normalization[1][2]
             estimated_factor_mean ==
                 FracDiv(Frac(data[intercept_norm] - intercept_norm_val, 1),
                         storage[intercept_norm].loadings)
         IN  [storage_df |-> [m \in 1..Len(data) |->
                 IF writes_intercept(m, intercept_norm)
                 THEN [storage[m] EXCEPT !.intercepts =
                          Some(FracSub(Frac(data[m], 1),
                                       FracMul(storage[m].loadings,
                                               estimated_factor_mean)))]
                 ELSE storage[m]],
              mean_list |-> Append(mean_list, estimated_factor_mean)]

InterceptsFromMeans ==
    /\ fres = None
    /\ \E r \in {intercepts_from_means(fargs[1].means, fargs[1].normalization,
                                       storage_df, fargs[1].mean_list)} :
          /\ fres' = FunctionResult("intercepts_from_means", r.mean_list)
          /\ storage_df' = r.storage_df
    /\ UNCHANGED <<kvars, lvars, evars, fargs, wa_pc, wa_t, wa_f, wa_trace>>

InterceptsInit ==
    /\ NoModel
    /\ NoKalman
    /\ \E nmeas \in 1..MaxInterceptMeas :
           fargs \in {Some(a) : a \in InterceptArguments(nmeas)}
    /\ fres = None
    /\ storage_df = InitialIntercepts(fargs[1])
    /\ wa_pc = "idle"
    /\ wa_t = 0
    /\ wa_f = 0
    /\ wa_trace = <<>>

InterceptsNext == InterceptsFromMeans

SpecIntercepts == InterceptsInit /\ [][InterceptsNext]_vars

\* the fraction x is the quotient num / den of two integers
IsQuotient(x, num, den) == x[2] * den = num * x[3]

\* C30: with an empty normalization intercepts_from_means sets the
\* intercept of every measurement to its sample mean and appends nothing to
\* mean_list; with a normalization (n, c) it appends exactly one value,
\* (mean(n) - c) / loading(n), and sets the intercept of every measurement
\* m other than n to mean(m) - loading(m) * that value; the intercept
\* stored for n and all loadings stay as they were.
C30_InterceptsFromMeans ==
    fres /= None =>
        LET a == fargs[1]
            mean_list == fres[1].out
        IN  /\ \A m \in 1..Len(a.means) : storage_df[m].loadings = Frac(a.loads[m], 1)
            /\ IF a.normalization = None
               THEN /\ mean_list = a.mean_list
                    /\ \A m \in 1..Len(a.means) :
                          storage_df[m].intercepts = Some(<<"frac", a.means[m], 1>>)
               ELSE LET n == a.normalization[1][1]
                        c == a.normalization[1][2]
                        factor_mean == mean_list[Len(mean_list)]
                    IN  /\ Len(mean_list) = Len(a.mean_list) + 1
                        /\ SubSeq(mean_list, 1, Len(a.mean_list)) = a.mean_list
                        /\ IsQuotient(factor_mean, a.means[n] - c, a.loads[n])
                        /\ storage_df[n].intercepts = InitialIntercepts(a)[n].intercepts
                        /\ \A m \in (1..Len(a.means)) \ {n} :
                              /\ storage_df[m].intercepts /= None
                              /\ IsQuotient(storage_df[m].intercepts[1],
                                     a.means[m] * factor_mean[3]
                                         - a.loads[m] * factor_mean[2],
                                     factor_mean[3])

\* a normalization to 1 of a measurement with mean 3 and loading -3 whose
\* row holds no intercept: the factor mean -2/3 is appended, another
\* measurement with mean 3 and loading 2 gets the intercept 13/3 and the
\* row of the normalized measurement still holds no intercept
C30_Witness ==
    /\ fres /= None
    /\ Len(fargs[1].means) = 3
    /\ fargs[1].normalization = Some(<<2, 1>>)
    /\ fargs[1].mean_list /= <<>>
    /\ ~fargs[1].stored
    /\ fres[1].out[2] = <<"frac", -2, 3>>
    /\ storage_df[2].intercepts = None
    /\ \E m \in {1, 3} : storage_df[m].intercepts = Some(<<"frac", 13, 3>>)

================================================================================
